---- MODULE Spec2Model ----
(***************************************************************************)
(* Model of the MCP stdio <-> WebSocket bridge of                          *)
(* src/pi_client/moyurobot/mcp/pipe.py: the reconnect loop of              *)
(* MCPPipe.connect_with_retry, one connection attempt of                   *)
(* MCPPipe._connect_to_server, and the three pumps it gathers.             *)
(*                                                                         *)
(* A "session" is one connection attempt whose channel was opened; the     *)
(* sessions of the target are numbered 1, 2, ... in the order they were    *)
(* opened.  Code between two suspension points (await) runs without        *)
(* interleaving on the event loop, so it is one step of the model.  The    *)
(* pumps of a session are asyncio tasks that asyncio.gather does not       *)
(* cancel when one of them raises: they keep taking steps after the        *)
(* attempt has failed.                                                     *)
(***************************************************************************)
EXTENDS Integers, Sequences, FiniteSets, TLC

\* ------------------------------------------------------------------ bounds
MaxFailures == 12   \* failures of one connect_with_retry the model follows
MaxSessions == 2    \* connection attempts whose channel opens
MaxMsgs == 2        \* messages the remote peer delivers in one session
MaxLines == 2       \* stdout lines the subprocess of one session produces
FairMaxMsgs == 1    \* MaxMsgs of the specification with fairness
FairMaxLines == 1   \* MaxLines of the specification with fairness
FairMaxFailures == 4  \* MaxFailures of the specification with fairness
TrafficMaxFailures == 4  \* MaxFailures of the specification with MaxMsgs, MaxLines
OrchMaxFailures == 2  \* failures of each connect_with_retry under MCPPipe.run
OrchMaxMsgs == 1      \* messages the peer delivers to each target under run
MaxCalls == 3         \* calls of load_config on one MCPPipe
MaxRequests == 4      \* requests served by the web controller's routes
MaxNow == 700         \* seconds of the web controller's clock that are followed
MaxCommands == 2      \* movement commands issued to the robot service
MaxClock == 16        \* the robot service's clock is followed up to this second

\* ------------------------------------------------------- program constants
INITIAL_BACKOFF == 1
MAX_BACKOFF == 600
SESSION_TIMEOUT_SECONDS == 100
VIP_SESSION_TIMEOUT_SECONDS == 600
TickSeconds == 50
command_timeout_s == 6

NL == "\n"

Sessions == 1..MaxSessions

\* Text is a sequence of characters.  Messages the peer may deliver: a plain
\* one and one that already ends with a newline.
Messages == { <<"A">>, <<"B", NL>> }

\* The n-th line a subprocess prints on stdout (readline keeps the newline):
\* consecutive lines differ, which is all the bridge could tell of them.
Line(n) == IF n % 2 = 1 THEN <<"x", NL>> ELSE <<"y", NL>>

Min(a, b) == IF a <= b THEN a ELSE b

VARIABLES
    pc,                 \* where connect_with_retry is suspended
    reconnect_attempt,  \* pipe.py:120
    backoff,            \* pipe.py:121
    exc,                \* the exception propagating out of _connect_to_server
    attempts,           \* history: connection attempts started
    sleeps,             \* history: the delays of the completed backoff sleeps
    cur,                \* number of the latest session (channels opened so far)
    local_process,      \* the attempt's local `process` (0: not in locals())
    pumps_of,           \* the session whose (websocket, process) the pumps hold
    websocket,          \* per session: state of its channel
    process,            \* per session: state of its subprocess
    inPump,             \* latest session: _pipe_websocket_to_process
    outPump,            \* latest session: _pipe_process_to_websocket
    errPump,            \* latest session: _pipe_process_stderr_to_terminal
    received,           \* latest session: messages recv() returned, in order
    stdin,              \* latest session: chunks written and flushed to stdin
    stdinClosed,        \* latest session: process.stdin.closed
    produced,           \* latest session: lines the subprocess wrote to stdout
    nread,              \* latest session: how many of them readline returned
    sent                \* latest session: messages sent on the channel

\* MCPPipe.run and the connect_with_retry tasks it starts, one per target.
\* The fields of a task are indexed by the target's name.
VARIABLES
    target_arg,         \* pipe.py:273  sys.argv[1], or "" when there is none
    mcpServers,         \* pipe.py:77   the "mcpServers" table of the configuration
    files,              \* the paths for which os.path.exists holds
    run_state,          \* where main/run is: "init", "running", ...
    tasks,              \* pipe.py:248/252  the targets connect_with_retry was called for
    task_pc,            \* per target: where its connect_with_retry is suspended
    attempt_of,         \* per target: its reconnect_attempt (pipe.py:120)
    backoff_of,         \* per target: its backoff (pipe.py:121)
    task_exc,           \* per target: the exception on its way out of the attempt
    channel_of,         \* per target: the channel of its current attempt
    subprocess_of,      \* per target: the subprocess of its current attempt
    sigs,               \* per target: signals sent to that subprocess
    delivered,          \* per target: messages recv() has returned to it
    resolve_failures,   \* per target: history, failed command resolutions
    flag_reads,         \* history: who evaluated which entry's "disabled" flag
    holder              \* the task whose synchronous call occupies the event
                        \* loop's thread, "" when the thread is free

\* MCPPipe.load_config followed on its own: the file, the memo, the calls.
VARIABLES
    source,             \* the configuration file as it is now
    config,             \* pipe.py:45  self._config
    reads,              \* history: how many times the file was opened and read
    returned,           \* history: what each call of load_config returned
    multi_result,       \* how run(None) on this MCPPipe ended, "none" before
    resolved            \* the last call of build_server_command and its outcome

\* The web controller's SessionManager (web/session.py) and the requests to
\* the routes that use it (web/controller.py).
VARIABLES
    active_user,        \* session.py:42  self._active_user (id, username, start_time, is_vip)
    waiting_users,      \* session.py:43  self._waiting_users
    lock,               \* session.py:44  self._lock: "free", or the call that holds it
    now,                \* time.time(), in seconds since the manager was made
    requests,           \* history: how many requests the routes have served
    call,               \* history: the last request (route, cookies)
    ret,                \* history: what the manager's method returned to the route
    response            \* history: what the route answered

\* RobotService (core/robot_service.py): the velocity commands, the timer
\* threads of the timed moves and the control loop's thread.
VARIABLES
    current_action,     \* robot_service.py:124  the velocity fields of self.current_action
    last_command_time,  \* robot_service.py:123  self.last_command_time
    clock,              \* time.time(), in whole seconds
    loop_pc,            \* where the control loop's thread is
    issued,             \* history: how many commands the callers have issued
    timers,             \* the stop_after_duration thread of each command, if it has one
    set_by              \* history: who wrote the velocity fields last

sessionVars == << pc, reconnect_attempt, backoff, exc, attempts, sleeps, cur,
                  local_process, pumps_of, websocket, process, inPump, outPump,
                  errPump, received, stdin, stdinClosed, produced, nread, sent >>

loadVars == << source, config, reads, returned, multi_result, resolved >>

webVars == << active_user, waiting_users, lock, now, requests, call, ret,
             response >>

\* What the pipe's actions leave alone besides the tasks: the configuration
\* and, being another program, the web controller.
robotVars == << current_action, last_command_time, clock, loop_pc, issued,
                timers, set_by >>

configVars == << target_arg, mcpServers, files, loadVars, webVars, robotVars >>

taskVars == << task_pc, attempt_of, backoff_of, task_exc, channel_of,
               subprocess_of, sigs, delivered, resolve_failures >>

orchVars == << configVars, run_state, tasks, taskVars, flag_reads, holder >>

vars == << sessionVars, orchVars >>

\* Everything of the pipe.
pipeVars == << sessionVars, target_arg, mcpServers, files, loadVars, run_state,
               tasks, taskVars, flag_reads, holder >>

loopVars == << pc, reconnect_attempt, backoff, exc, attempts, sleeps, cur,
               local_process >>
resVars == << websocket, process >>
pumpVars == << inPump, outPump, errPump >>
streamVars == << received, stdin, stdinClosed, produced, nread, sent >>

PumpExceptions == { "ConnectionClosed", "BrokenPipeError" }

\* The targets a run may be given: a server name and a script path.
Names == { "srv", "s.py" }

\* The order of the keys of the configuration table (a dict keeps the order
\* of the file).
NameOrder == << "srv", "s.py" >>

\* Python's None, which is also what json.load gives for the document `null`.
PyNone == [ kind |-> "None", servers |-> << >> ]

\* The empty dict.
EmptySnapshot == [ kind |-> "dict", servers |-> << >> ]

\* Python's None as an id or a username.
None == "None"

\* session.py:27-32: ActiveUser().
NoActiveUser == [ id |-> None, username |-> None, start_time |-> 0, is_vip |-> FALSE ]

NoCall == [ op |-> "none", user_id |-> None, username |-> None, is_vip |-> FALSE ]

\* session.py:41-44 and 225: the module's session_manager, before any request.
WebIdle ==
    /\ active_user = NoActiveUser
    /\ waiting_users = << >>
    /\ lock = "free"
    /\ now = 0
    /\ requests = 0
    /\ call = NoCall
    /\ ret = "none"
    /\ response = "none"

\* robot_service.py:124-128: no velocity.
ZeroVelocity == [ x_vel |-> "0.0", y_vel |-> "0.0", theta_vel |-> "0.0" ]

\* The time the service is made at: as any time.time(), more than
\* command_timeout_s after 0.
StartClock == command_timeout_s + 1

NoTimer == [ pc |-> "none", duration |-> 0, end_time |-> 0 ]

\* robot_service.py:115-136 and 205-239: a RobotService that is connected,
\* its control loop started, before any command.
RobotIdle ==
    /\ current_action = ZeroVelocity
    /\ last_command_time = 0
    /\ clock = StartClock
    /\ loop_pc = "check"
    /\ issued = 0
    /\ timers = [ c \in 1..MaxCommands |-> NoTimer ]
    /\ set_by = [ id |-> 0, by |-> "init" ]

\* build_server_command has not been called.
NotResolved ==
    [ target |-> "",
      result |-> [ error |-> "not called", argv |-> << >>, flag |-> FALSE ] ]

\* pipe.py:45: a new MCPPipe has loaded nothing.  (Where load_config is not
\* followed, the table in mcpServers stands for what it gave its callers.)
LoadIdle ==
    /\ source = [ file |-> "missing", value |-> PyNone ]
    /\ config = PyNone
    /\ reads = 0
    /\ returned = << >>
    /\ multi_result = "none"
    /\ resolved = NotResolved
    /\ WebIdle
    /\ RobotIdle

\* No run yet: no task, and the fields of every target as connect_with_retry
\* sets them on entry (pipe.py:120-121).
OrchIdle ==
    /\ LoadIdle
    /\ run_state = "init"
    /\ tasks = << >>
    /\ task_pc = [n \in Names |-> "none"]
    /\ attempt_of = [n \in Names |-> 0]
    /\ backoff_of = [n \in Names |-> INITIAL_BACKOFF]
    /\ task_exc = [n \in Names |-> "none"]
    /\ channel_of = [n \in Names |-> "none"]
    /\ subprocess_of = [n \in Names |-> "none"]
    /\ sigs = [n \in Names |-> << >>]
    /\ delivered = [n \in Names |-> 0]
    /\ resolve_failures = [n \in Names |-> 0]
    /\ flag_reads = { }
    /\ holder = ""

\* One call of connect_with_retry followed in detail, with no configuration.
SessionInit ==
    /\ pc = "start"
    /\ reconnect_attempt = 0
    /\ backoff = INITIAL_BACKOFF
    /\ exc = "none"
    /\ attempts = 0
    /\ sleeps = << >>
    /\ cur = 0
    /\ local_process = 0
    /\ pumps_of = 0
    /\ websocket = [s \in Sessions |-> "none"]
    /\ process = [s \in Sessions |-> "none"]
    /\ inPump = "off"
    /\ outPump = "off"
    /\ errPump = "off"
    /\ received = << >>
    /\ stdin = << >>
    /\ stdinClosed = FALSE
    /\ produced = << >>
    /\ nread = 0
    /\ sent = << >>

\* connect_with_retry called on its own for a script path: no table, and no
\* task of a run (the fields of the tasks are functions of no target).
NoTaskState ==
    /\ run_state = "init"
    /\ tasks = << >>
    /\ task_pc = << >>
    /\ attempt_of = << >>
    /\ backoff_of = << >>
    /\ task_exc = << >>
    /\ channel_of = << >>
    /\ subprocess_of = << >>
    /\ sigs = << >>
    /\ delivered = << >>
    /\ resolve_failures = << >>
    /\ flag_reads = { }
    /\ holder = ""

NoTasks ==
    /\ target_arg = "s.py"
    /\ mcpServers = << >>
    /\ files = { "s.py" }
    /\ NoTaskState

NoRun == NoTasks /\ LoadIdle

Init ==
    /\ SessionInit
    /\ NoRun

\* ------------------------------------------------------------- helpers

\* Mutant of WriteLine: the newline is forgotten.
WriteLineNoNewline(message) == message

\* pipe.py:187  process.stdin.write(message + '\n')
WriteLine(message) == message \o << NL >>

\* Mutant of NextBackoff: the cap is forgotten.
NextBackoffUncapped(b) == b * 2

\* pipe.py:134  backoff = min(backoff * 2, MAX_BACKOFF)
NextBackoff(b) == Min(b * 2, MAX_BACKOFF)

\* pipe.py:158-159  the websocket the pumps were handed
PumpWebsocket == pumps_of

\* Mutant of PumpProcess: the subprocess of the first session is kept and
\* handed to the pumps of every later session.
PumpProcessShared == Min(pumps_of, 1)

\* pipe.py:158-160  the process the pumps were handed
PumpProcess == pumps_of

\* A step of a pump that is due: its awaited operation has completed (the
\* channel it reads is closed, the line it waits for is there, the stream
\* it reads is at its end) and the event loop only has to resume the task.
PumpStepDue ==
    \/ inPump = "recv" /\ websocket[PumpWebsocket] # "open"
    \/ outPump = "send"
    \/ outPump = "read" /\ (nread < Len(produced) \/ process[PumpProcess] # "running")
    \/ errPump = "read" /\ process[PumpProcess] # "running"

\* ------------------------------------------- connect_with_retry (118-134)

\* Mutant of LoopTop: the first retry does not sleep.
LoopTopSkipsFirstSleep(a) ==
    IF a > 1
      THEN pc' = "sleep" /\ UNCHANGED attempts
      ELSE pc' = "connect" /\ attempts' = attempts + 1

\* pipe.py:123-129: the top of the loop with attempt count a; the first
\* iteration calls _connect_to_server at once, every later one sleeps first.
LoopTop(a) ==
    IF a > 0
      THEN pc' = "sleep" /\ UNCHANGED attempts
      ELSE pc' = "connect" /\ attempts' = attempts + 1

\* pipe.py:118-123: connect_with_retry is called and enters its loop.
Start ==
    /\ UNCHANGED orchVars
    /\ pc = "start"
    /\ LoopTop(reconnect_attempt)
    /\ UNCHANGED << reconnect_attempt, backoff, exc, sleeps, cur, local_process,
                    pumps_of, resVars, pumpVars, streamVars >>

\* No pump task is left and the record of the streams is empty: the state of
\* a call of _connect_to_server that has not started its pumps yet.
NoPumps ==
    /\ pumps_of' = 0
    /\ inPump' = "off"
    /\ outPump' = "off"
    /\ errPump' = "off"
    /\ received' = << >>
    /\ stdin' = << >>
    /\ stdinClosed' = FALSE
    /\ produced' = << >>
    /\ nread' = 0
    /\ sent' = << >>

\* pipe.py:127-129: asyncio.sleep(backoff) completes and _connect_to_server
\* is called anew.  The delay is at least 2 s: the event loop has by then
\* resumed every pump whose step was due, and the pumps of the attempt that
\* failed, which read a closed channel and a dead subprocess, have ended.
SleepDone ==
    /\ UNCHANGED orchVars
    /\ pc = "sleep"
    /\ ~PumpStepDue
    /\ sleeps' = Append(sleeps, backoff)
    /\ attempts' = attempts + 1
    /\ pc' = "connect"
    /\ NoPumps
    /\ UNCHANGED << reconnect_attempt, backoff, exc, cur, local_process, resVars >>

\* Mutant of OnException: a failure that follows a period of operation
\* starts the count and the delay afresh.
OnExceptionResetAfterActive ==
    /\ reconnect_attempt' = IF local_process # 0 THEN 1 ELSE reconnect_attempt + 1
    /\ backoff' = IF local_process # 0 THEN NextBackoff(INITIAL_BACKOFF)
                                       ELSE NextBackoff(backoff)
    /\ LoopTop(reconnect_attempt')

\* Mutant of OnException: the loop gives up after three failures.
OnExceptionGiveUp ==
    /\ reconnect_attempt' = reconnect_attempt + 1
    /\ backoff' = NextBackoff(backoff)
    /\ IF reconnect_attempt' >= 3
         THEN pc' = "returned" /\ UNCHANGED attempts
         ELSE LoopTop(reconnect_attempt')

\* pipe.py:131-134 and back to 123-127: the except clause counts the
\* failure and doubles the delay, and the loop goes round.
OnException ==
    /\ reconnect_attempt' = reconnect_attempt + 1
    /\ backoff' = NextBackoff(backoff)
    /\ LoopTop(reconnect_attempt')

\* ------------------------------------------- _connect_to_server (136-176)

\* Mutant of TerminateProcess: the finally clause is missing.
TerminateProcessSkipped == UNCHANGED process

\* pipe.py:168-176: with `process` in locals(): terminate(), wait(timeout=5)
\* and kill() on TimeoutExpired.  A process that already exited stays as it
\* is; a running one exits within the grace period or is killed.
TerminateProcess ==
    IF local_process # 0 /\ process[local_process] = "running"
      THEN \E how \in { "exited", "killed" } :
             process' = [process EXCEPT ![local_process] = how]
      ELSE UNCHANGED process

\* pipe.py:140, 165-167: websockets.connect raises.  No channel was opened,
\* `process` is not in locals(), the exception reaches connect_with_retry.
ConnectFail ==
    /\ UNCHANGED orchVars
    /\ pc = "connect"
    /\ reconnect_attempt < MaxFailures
    /\ local_process' = 0
    /\ OnException
    /\ UNCHANGED << exc, sleeps, cur, pumps_of, resVars, pumpVars, streamVars >>

\* pipe.py:140-161: websockets.connect succeeds; then, with no suspension
\* point in between, build_server_command resolves the command (or raises),
\* Popen spawns the subprocess (or raises) and gather starts the three pumps
\* on this attempt's (websocket, process).
ConnectOK ==
    /\ UNCHANGED orchVars
    /\ pc = "connect"
    /\ reconnect_attempt < MaxFailures
    /\ cur < MaxSessions
    /\ cur' = cur + 1
    /\ websocket' = [websocket EXCEPT ![cur + 1] = "open"]
    /\ \E outcome \in { "ResolveError", "SpawnError", "started" } :
         IF outcome = "started"
           THEN /\ process' = [process EXCEPT ![cur + 1] = "running"]
                /\ local_process' = cur + 1
                /\ pumps_of' = cur + 1
                /\ inPump' = "recv"
                /\ outPump' = "read"
                /\ errPump' = "read"
                /\ received' = << >>
                /\ stdin' = << >>
                /\ stdinClosed' = FALSE
                /\ produced' = << >>
                /\ nread' = 0
                /\ sent' = << >>
                /\ pc' = "gather"
                /\ UNCHANGED exc
           ELSE /\ exc' = outcome
                /\ local_process' = 0
                /\ pc' = "aexit"
                /\ UNCHANGED << process, pumps_of, pumpVars, streamVars >>
    /\ UNCHANGED << reconnect_attempt, backoff, attempts, sleeps >>

\* pipe.py:157-161: gather propagates the exception of a pump that raised to
\* the `async with` block, which starts closing the channel.  gather does
\* not cancel the other pumps.  The inbound pump has no normal exit (its
\* `while True` has no break), so gather never returns normally.
Gather ==
    /\ UNCHANGED orchVars
    /\ pc = "gather"
    /\ \E e \in PumpExceptions :
         /\ e \in { inPump, outPump, errPump }
         /\ exc' = e
    /\ pc' = "aexit"
    /\ UNCHANGED << reconnect_attempt, backoff, attempts, sleeps, cur,
                    local_process, pumps_of, resVars, pumpVars, streamVars >>

\* Mutant of AExit: the channel of the failed attempt is left open.
AExitLeavesChannel ==
    /\ UNCHANGED orchVars
    /\ pc = "aexit"
    /\ UNCHANGED websocket
    /\ TerminateProcess
    /\ OnException
    /\ exc' = "none"
    /\ UNCHANGED << sleeps, cur, local_process, pumps_of, pumpVars, streamVars >>

\* pipe.py:140 (leaving `async with`), 162-176, 131-134: the channel is
\* closed; then, with no suspension point in between, the finally clause
\* tears the subprocess down and the exception reaches connect_with_retry.
AExit ==
    /\ UNCHANGED orchVars
    /\ pc = "aexit"
    /\ websocket' = [websocket EXCEPT ![cur] = "closed"]
    /\ TerminateProcess
    /\ OnException
    /\ exc' = "none"
    /\ UNCHANGED << sleeps, cur, local_process, pumps_of, pumpVars, streamVars >>

\* ---------------------------------------------------------- the pumps

\* Mutant of InboundStep: the pump ends on a closed channel without closing
\* the subprocess's stdin.
InboundStepLeavesStdinOpen(deliverable) ==
    /\ UNCHANGED orchVars
    /\ inPump = "recv"
    /\ IF websocket[PumpWebsocket] = "open"
         THEN /\ \E message \in deliverable :
                   /\ received' = Append(received, message)
                   /\ IF process[PumpProcess] = "running"
                        THEN /\ stdin' = Append(stdin, WriteLine(message))
                             /\ UNCHANGED << inPump, stdinClosed >>
                        ELSE /\ inPump' = "BrokenPipeError"
                             /\ stdinClosed' = TRUE
                             /\ UNCHANGED stdin
         ELSE /\ inPump' = "ConnectionClosed"
              /\ UNCHANGED << received, stdin, stdinClosed >>
    /\ UNCHANGED << loopVars, pumps_of, resVars, outPump, errPump, produced,
                    nread, sent >>

\* Mutant of InboundStep: a message is written again when the next one
\* arrives.
InboundStepWritesAgain(deliverable) ==
    /\ UNCHANGED orchVars
    /\ inPump = "recv"
    /\ IF websocket[PumpWebsocket] = "open"
         THEN /\ \E message \in deliverable :
                   /\ received' = Append(received, message)
                   /\ IF process[PumpProcess] = "running"
                        THEN /\ stdin' = IF received = << >>
                                           THEN Append(stdin, WriteLine(message))
                                           ELSE stdin \o << WriteLine(received[Len(received)]),
                                                            WriteLine(message) >>
                             /\ UNCHANGED << inPump, stdinClosed >>
                        ELSE /\ inPump' = "BrokenPipeError"
                             /\ stdinClosed' = TRUE
                             /\ UNCHANGED stdin
         ELSE /\ inPump' = "ConnectionClosed"
              /\ stdinClosed' = TRUE
              /\ UNCHANGED << received, stdin >>
    /\ UNCHANGED << loopVars, pumps_of, resVars, outPump, errPump, produced,
                    nread, sent >>

\* pipe.py:178-194, one iteration of _pipe_websocket_to_process: recv()
\* returns the next message, which is written (message + '\n') and flushed
\* with no suspension point in between; or recv() raises because the channel
\* is closed; or the flush raises because the subprocess has exited.
\* Every exit closes the subprocess's stdin (finally, 192-194).
\* The write to a running subprocess is taken to complete: the pipe has room
\* for the few messages of a session.
InboundStep(deliverable) ==
    /\ UNCHANGED orchVars
    /\ inPump = "recv"
    /\ IF websocket[PumpWebsocket] = "open"
         THEN /\ \E message \in deliverable :
                   /\ received' = Append(received, message)
                   /\ IF process[PumpProcess] = "running"
                        THEN /\ stdin' = Append(stdin, WriteLine(message))
                             /\ UNCHANGED << inPump, stdinClosed >>
                        ELSE /\ inPump' = "BrokenPipeError"
                             /\ stdinClosed' = TRUE
                             /\ UNCHANGED stdin
         ELSE /\ inPump' = "ConnectionClosed"
              /\ stdinClosed' = TRUE
              /\ UNCHANGED << received, stdin >>
    /\ UNCHANGED << loopVars, pumps_of, resVars, outPump, errPump, produced,
                    nread, sent >>

\* The inbound pump with a peer that delivers any of Messages, MaxMsgs of
\* them in a session.
InboundPump ==
    InboundStep(IF Len(received) < MaxMsgs THEN Messages ELSE { })

\* Mutant of OutboundRead: everything buffered is read at once and only
\* the last line is kept.
OutboundReadSkipping ==
    /\ UNCHANGED orchVars
    /\ outPump = "read"
    /\ IF nread < Len(produced)
         THEN /\ nread' = Len(produced)
              /\ outPump' = "send"
         ELSE /\ process[PumpProcess] # "running"
              /\ outPump' = "returned"
              /\ UNCHANGED nread
    /\ UNCHANGED << loopVars, pumps_of, resVars, inPump, errPump, received,
                    stdin, stdinClosed, produced, sent >>

\* Mutant of OutboundRead: end-of-stream is raised as an error.
OutboundReadEofRaises ==
    /\ UNCHANGED orchVars
    /\ outPump = "read"
    /\ IF nread < Len(produced)
         THEN /\ nread' = nread + 1
              /\ outPump' = "send"
         ELSE /\ process[PumpProcess] # "running"
              /\ outPump' = "BrokenPipeError"
              /\ UNCHANGED nread
    /\ UNCHANGED << loopVars, pumps_of, resVars, inPump, errPump, received,
                    stdin, stdinClosed, produced, sent >>

\* pipe.py:200-204: readline (in a worker thread) returns the next line of
\* the subprocess's stdout, or '' at end-of-stream, which ends the pump
\* without an error.
OutboundRead ==
    /\ UNCHANGED orchVars
    /\ outPump = "read"
    /\ IF nread < Len(produced)
         THEN /\ nread' = nread + 1
              /\ outPump' = "send"
         ELSE /\ process[PumpProcess] # "running"
              /\ outPump' = "returned"
              /\ UNCHANGED nread
    /\ UNCHANGED << loopVars, pumps_of, resVars, inPump, errPump, received,
                    stdin, stdinClosed, produced, sent >>

\* Mutant of OutboundSend: what is sent is the newest line of the stream,
\* not the line just read.
OutboundSendNewest ==
    /\ UNCHANGED orchVars
    /\ outPump = "send"
    /\ IF websocket[PumpWebsocket] = "open"
         THEN /\ sent' = Append(sent, [from |-> PumpProcess, on |-> PumpWebsocket,
                                       data |-> produced[Len(produced)]])
              /\ outPump' = "read"
         ELSE /\ outPump' = "ConnectionClosed"
              /\ UNCHANGED sent
    /\ UNCHANGED << loopVars, pumps_of, resVars, inPump, errPump, received,
                    stdin, stdinClosed, produced, nread >>

\* pipe.py:207-210: the line just read is sent as one message; send raises
\* on a closed channel and the pump re-raises.
OutboundSend ==
    /\ UNCHANGED orchVars
    /\ outPump = "send"
    /\ IF websocket[PumpWebsocket] = "open"
         THEN /\ sent' = Append(sent, [from |-> PumpProcess, on |-> PumpWebsocket,
                                       data |-> produced[nread]])
              /\ outPump' = "read"
         ELSE /\ outPump' = "ConnectionClosed"
              /\ UNCHANGED sent
    /\ UNCHANGED << loopVars, pumps_of, resVars, inPump, errPump, received,
                    stdin, stdinClosed, produced, nread >>

\* pipe.py:212-226: the stderr stream ends and the pump returns.  (The lines
\* it forwards to the terminal before that change nothing modelled here.)
ErrPump ==
    /\ UNCHANGED orchVars
    /\ errPump = "read"
    /\ process[PumpProcess] # "running"
    /\ errPump' = "returned"
    /\ UNCHANGED << loopVars, pumps_of, resVars, inPump, outPump, streamVars >>

\* ------------------------------------------------------ the environment

\* The remote peer closes the channel cleanly, or the connection drops.
PeerClose(s) ==
    /\ UNCHANGED orchVars
    /\ websocket[s] = "open"
    /\ \E how \in { "closed_ok", "dropped" } :
         websocket' = [websocket EXCEPT ![s] = how]
    /\ UNCHANGED << loopVars, pumps_of, process, pumpVars, streamVars >>

\* The subprocess the pumps read prints a line on its stdout.
ProcessEmit ==
    /\ UNCHANGED orchVars
    /\ pumps_of # 0
    /\ process[pumps_of] = "running"
    /\ Len(produced) < MaxLines
    /\ produced' = Append(produced, Line(Len(produced) + 1))
    /\ UNCHANGED << loopVars, pumps_of, resVars, pumpVars, received, stdin,
                    stdinClosed, nread, sent >>

\* A subprocess exits on its own.
ProcessExit(s) ==
    /\ UNCHANGED orchVars
    /\ process[s] = "running"
    /\ process' = [process EXCEPT ![s] = "exited"]
    /\ UNCHANGED << loopVars, pumps_of, websocket, pumpVars, streamVars >>

\* ------------------------------------------- the end-to-end echo scenario

\* The messages the channel delivers, in this order.
EchoScript == << << "A", NL >>, << "B", NL >> >>

\* The text of a sequence of chunks written to a stream.
RECURSIVE Flatten(_)
Flatten(chunks) ==
    IF chunks = << >> THEN << >> ELSE Head(chunks) \o Flatten(Tail(chunks))

\* The complete lines of a text, each with its newline, as readline returns
\* them; `line` is the part of the current line already passed.
RECURSIVE SplitLines(_, _)
SplitLines(text, line) ==
    IF text = << >> THEN << >>
    ELSE IF Head(text) = NL
           THEN << Append(line, NL) >> \o SplitLines(Tail(text), << >>)
           ELSE SplitLines(Tail(text), Append(line, Head(text)))

\* The peer delivers the next message of the script.
EchoDeliver ==
    InboundStep(IF Len(received) < Len(EchoScript)
                  THEN { EchoScript[Len(received) + 1] } ELSE { })

\* The subprocess echoes its input: it prints the next line of its stdin.
ProcessEcho ==
    /\ UNCHANGED orchVars
    /\ pumps_of # 0
    /\ process[pumps_of] = "running"
    /\ Len(produced) < Len(SplitLines(Flatten(stdin), << >>))
    /\ produced' = Append(produced, SplitLines(Flatten(stdin), << >>)[Len(produced) + 1])
    /\ UNCHANGED << loopVars, pumps_of, resVars, pumpVars, received, stdin,
                    stdinClosed, nread, sent >>

\* --------------------------------------------------------- specification

Next ==
    \/ Start
    \/ SleepDone
    \/ ConnectOK /\ reconnect_attempt < TrafficMaxFailures
    \/ ConnectFail /\ reconnect_attempt < TrafficMaxFailures
    \/ Gather
    \/ AExit
    \/ InboundPump
    \/ OutboundRead
    \/ OutboundSend
    \/ ErrPump
    \/ \E s \in Sessions : PeerClose(s)
    \/ ProcessEmit
    \/ \E s \in Sessions : ProcessExit(s)

Spec == Init /\ [][Next]_vars

\* recv() raising on a closed channel: the part of the inbound pump's step
\* that does not wait for the peer.
InboundRaise == InboundPump /\ websocket[PumpWebsocket] # "open"

\* A step the event loop takes on its own once the awaited operation has
\* completed: a sleep ends, a close handshake ends (close_timeout), a pump
\* that raised wakes gather, a read or a send that can complete does.
LoopStep ==
    \/ Start
    \/ SleepDone
    \/ Gather
    \/ AExit
    \/ InboundRaise
    \/ OutboundRead
    \/ OutboundSend
    \/ ErrPump

\* The event loop keeps running: while such a step is possible, one is
\* taken.  Nothing is assumed of the peer, of the subprocess or of the
\* outcome of a connection attempt.
Fairness == WF_vars(LoopStep)

\* The same steps, with less traffic in a session and fewer failures.
FairNext ==
    \/ Start
    \/ SleepDone
    \/ ConnectOK /\ reconnect_attempt < FairMaxFailures
    \/ ConnectFail /\ reconnect_attempt < FairMaxFailures
    \/ Gather
    \/ AExit
    \/ InboundPump /\ Len(received') <= FairMaxMsgs
    \/ OutboundRead
    \/ OutboundSend
    \/ ErrPump
    \/ \E s \in Sessions : PeerClose(s)
    \/ ProcessEmit /\ Len(produced') <= FairMaxLines
    \/ \E s \in Sessions : ProcessExit(s)

FairSpec == Init /\ [][FairNext]_vars /\ Fairness

\* The same steps, with less traffic in a session and every failure the
\* model follows: the delay reaches its cap and stays there.
BackoffNext ==
    \/ Start
    \/ SleepDone
    \/ ConnectOK
    \/ ConnectFail
    \/ Gather
    \/ AExit
    \/ InboundPump /\ Len(received') <= FairMaxMsgs
    \/ OutboundRead
    \/ OutboundSend
    \/ ErrPump
    \/ \E s \in Sessions : PeerClose(s)
    \/ ProcessEmit /\ Len(produced') <= FairMaxLines
    \/ \E s \in Sessions : ProcessExit(s)

BackoffSpec == Init /\ [][BackoffNext]_vars

\* The bridge with the peer and the subprocess of the echo scenario.
EchoNext ==
    \/ Start
    \/ SleepDone
    \/ ConnectOK
    \/ ConnectFail
    \/ Gather
    \/ AExit
    \/ EchoDeliver
    \/ OutboundRead
    \/ OutboundSend
    \/ ErrPump
    \/ \E s \in Sessions : PeerClose(s)
    \/ ProcessEcho
    \/ \E s \in Sessions : ProcessExit(s)

EchoSpec == Init /\ [][EchoNext]_vars

\* =================================================== MCPPipe.run (228-255)

\* Configuration entries.  A field that is absent from the entry is "" (or
\* FALSE for the flag, or no header): entry.get() then gives None, which is
\* falsy as "" is.  `headers` keeps the order of the file; a header's value
\* is a JSON string or a JSON number.
StdioEntry ==
    [ disabled |-> FALSE, type |-> "", transportType |-> "", command |-> "cmd",
      args |-> << "--x" >>, url |-> "", headers |-> << >> ]

DisabledEntry ==
    [ disabled |-> TRUE, type |-> "", transportType |-> "", command |-> "cmd",
      args |-> << >>, url |-> "", headers |-> << >> ]

NoCommandEntry ==
    [ disabled |-> FALSE, type |-> "STDIO", transportType |-> "", command |-> "",
      args |-> << >>, url |-> "", headers |-> << >> ]

BadTypeEntry ==
    [ disabled |-> FALSE, type |-> "", transportType |-> "grpc", command |-> "cmd",
      args |-> << >>, url |-> "", headers |-> << >> ]

Entries == { StdioEntry, DisabledEntry, NoCommandEntry, BadTypeEntry }

\* str.lower() on the transport kinds that occur.
Lower(s) ==
    CASE s = "STDIO" -> "stdio"
      [] s = "SSE" -> "sse"
      [] s = "HTTP" -> "http"
      [] OTHER -> s

\* str() of a header's value (pipe.py:106).
Str(hv) == IF hv.json = "string" THEN hv.text ELSE ToString(hv.number)

\* The two ways build_server_command ends; `flag` tells whether the entry's
\* "disabled" flag was evaluated on the way.
Raise(message, flagRead) == [ error |-> message, argv |-> << >>, flag |-> flagRead ]
Return(cmd, flagRead) == [ error |-> "", argv |-> cmd, flag |-> flagRead ]

\* Mutant of stdio_command: an entry without a command is started anyway.
stdio_commandUnchecked(entry) ==
    Return(<< entry.command >> \o entry.args, TRUE)

\* pipe.py:90-95: the command line of a stdio entry.
stdio_command(entry) ==
    IF entry.command = ""
      THEN Raise("missing command", TRUE)
      ELSE Return(<< entry.command >> \o entry.args, TRUE)

\* pipe.py:104-106: "-H", key, str(value) for each header, in order.
RECURSIVE header_flags(_)
header_flags(headers) ==
    IF headers = << >> THEN << >>
    ELSE << "-H", Head(headers).key, Str(Head(headers).value) >>
           \o header_flags(Tail(headers))

\* Mutant of proxy_command: the url is put before the header flags.
proxy_commandUrlFirst(entry, typ) ==
    IF entry.url = ""
      THEN Raise("missing url", TRUE)
      ELSE Return(<< "python", "-m", "mcp_proxy" >>
                    \o (IF typ \in { "http", "streamablehttp" }
                          THEN << "--transport", "streamablehttp" >>
                          ELSE << >>)
                    \o << entry.url >>
                    \o header_flags(entry.headers), TRUE)

\* pipe.py:97-108: the command line of the proxy for an sse, http or
\* streamablehttp entry ("python" stands for sys.executable).
proxy_command(entry, typ) ==
    IF entry.url = ""
      THEN Raise("missing url", TRUE)
      ELSE Return(<< "python", "-m", "mcp_proxy" >>
                    \o (IF typ \in { "http", "streamablehttp" }
                          THEN << "--transport", "streamablehttp" >>
                          ELSE << >>)
                    \o header_flags(entry.headers)
                    \o << entry.url >>, TRUE)

\* pipe.py:84.
typ_of(entry) ==
    Lower(IF entry.type # "" THEN entry.type
          ELSE IF entry.transportType # "" THEN entry.transportType
          ELSE "stdio")

\* pipe.py:90-110: the command of an entry by its transport kind.
command_by_type(entry) ==
    IF typ_of(entry) = "stdio" THEN stdio_command(entry)
    ELSE IF typ_of(entry) \in { "sse", "http", "streamablehttp" }
      THEN proxy_command(entry, typ_of(entry))
    ELSE Raise("unsupported type", TRUE)

\* Mutant of entry_command: the flag is looked at only when the entry has
\* yielded a command.
entry_commandFlagLast(entry) ==
    IF command_by_type(entry).error # "" THEN command_by_type(entry)
    ELSE IF entry.disabled THEN Raise("disabled", TRUE)
    ELSE command_by_type(entry)

\* pipe.py:80-110: the command of the entry the target names.
entry_command(entry) ==
    IF entry.disabled THEN Raise("disabled", TRUE)
    ELSE command_by_type(entry)

\* pipe.py:113-116: the target as the path of a script.
script_command(fs, target) ==
    IF target \notin fs
      THEN Raise("not a configured server nor an existing script", FALSE)
      ELSE Return(<< "python", target >>, FALSE)

\* Mutant of command_for: an existing file is preferred to the table.
command_forPathFirst(servers, fs, target) ==
    IF target \in fs THEN script_command(fs, target)
    ELSE IF target \in DOMAIN servers THEN entry_command(servers[target])
    ELSE script_command(fs, target)

\* pipe.py:79-116: build_server_command from the table `servers` on.
command_for(servers, fs, target) ==
    IF target \in DOMAIN servers
      THEN entry_command(servers[target])
      ELSE script_command(fs, target)

\* pipe.py:77: the table of a snapshot; a snapshot that is not a dict has none.
servers_of(cfg) == IF cfg.kind = "dict" THEN cfg.servers ELSE << >>

\* pipe.py:76-116, with the table load_config gave.
build_server_command(target) == command_for(mcpServers, files, target)

\* pipe.py:238-239: the keys of the table, and those whose entry's flag is
\* not set, in the order of the table.
all_servers_in(servers_cfg) ==
    SelectSeq(NameOrder, LAMBDA n : n \in DOMAIN servers_cfg)
enabled_in(servers_cfg) ==
    SelectSeq(all_servers_in(servers_cfg), LAMBDA n : ~servers_cfg[n].disabled)

all_servers == all_servers_in(mcpServers)
enabled == enabled_in(mcpServers)

Range(seq) == { seq[i] : i \in 1..Len(seq) }

\* A run starts: any table over the names, any set of existing paths, any
\* argument.
OrchInit ==
    /\ SessionInit
    /\ OrchIdle
    /\ target_arg \in { "" } \cup Names
    /\ \E K \in SUBSET Names : mcpServers \in [K -> Entries]
    /\ files \in { { }, { "s.py" } }

\* The event loop's thread is free to resume a task, and the run goes on.
Free == holder = "" /\ run_state = "running"

\* Mutant of StartTasks: a task is also started for a disabled entry.
StartTasksAll(targets) ==
    /\ tasks' = all_servers
    /\ task_pc' = [n \in Names |-> IF n \in Range(all_servers) THEN "connect" ELSE "none"]

\* pipe.py:248-249, 252 and 118-129, 139-140: connect_with_retry is called
\* for each of the targets and, at its first attempt, waits for the channel.
StartTasks(targets) ==
    /\ tasks' = targets
    /\ task_pc' = [n \in Names |-> IF n \in Range(targets) THEN "connect" ELSE "none"]

\* Mutant of Run: an explicit target that is a key of the table is
\* accepted as well.
RunAcceptsKey ==
    /\ run_state = "init"
    /\ IF target_arg = ""
         THEN /\ flag_reads' = flag_reads \cup { << "run", n >> : n \in DOMAIN mcpServers }
              /\ IF enabled = << >>
                   THEN /\ run_state' = "RuntimeError: no enabled mcpServers"
                        /\ UNCHANGED << tasks, task_pc >>
                   ELSE /\ run_state' = "running"
                        /\ StartTasks(enabled)
         ELSE /\ UNCHANGED flag_reads
              /\ IF target_arg \in files \/ target_arg \in DOMAIN mcpServers
                   THEN /\ run_state' = "running"
                        /\ StartTasks(<< target_arg >>)
                   ELSE /\ run_state' = "sys.exit(1)"
                        /\ UNCHANGED << tasks, task_pc >>
    /\ UNCHANGED << sessionVars, configVars, attempt_of, backoff_of, task_exc,
                    channel_of, subprocess_of, sigs, delivered, resolve_failures,
                    holder >>

\* pipe.py:235-255.
Run ==
    /\ run_state = "init"
    /\ IF target_arg = ""
         THEN /\ flag_reads' = flag_reads \cup { << "run", n >> : n \in DOMAIN mcpServers }
              /\ IF enabled = << >>
                   THEN /\ run_state' = "RuntimeError: no enabled mcpServers"
                        /\ UNCHANGED << tasks, task_pc >>
                   ELSE /\ run_state' = "running"
                        /\ StartTasks(enabled)
         ELSE /\ UNCHANGED flag_reads
              /\ IF target_arg \in files
                   THEN /\ run_state' = "running"
                        /\ StartTasks(<< target_arg >>)
                   ELSE /\ run_state' = "sys.exit(1)"
                        /\ UNCHANGED << tasks, task_pc >>
    /\ UNCHANGED << sessionVars, configVars, attempt_of, backoff_of, task_exc,
                    channel_of, subprocess_of, sigs, delivered, resolve_failures,
                    holder >>

\* Mutant of OnExceptionOf: one backoff delay is kept for all the targets.
OnExceptionOfShared(n) ==
    /\ attempt_of' = [attempt_of EXCEPT ![n] = @ + 1]
    /\ backoff_of' = [m \in Names |-> NextBackoff(backoff_of[n])]
    /\ task_pc' = [task_pc EXCEPT ![n] = "sleep"]
    /\ task_exc' = [task_exc EXCEPT ![n] = "none"]

\* Mutant of OnExceptionOf: a failed command resolution ends the task.
OnExceptionOfFatalConfig(n) ==
    /\ attempt_of' = [attempt_of EXCEPT ![n] = @ + 1]
    /\ backoff_of' = [backoff_of EXCEPT ![n] = NextBackoff(@)]
    /\ task_pc' = [task_pc EXCEPT ![n] = IF build_server_command(n).error # ""
                                          THEN "done" ELSE "sleep"]
    /\ task_exc' = [task_exc EXCEPT ![n] = "none"]

\* pipe.py:131-134, then 123-127: target n's except clause counts the
\* failure, whatever Exception it is, doubles n's delay, and n sleeps.
OnExceptionOf(n) ==
    /\ attempt_of' = [attempt_of EXCEPT ![n] = @ + 1]
    /\ backoff_of' = [backoff_of EXCEPT ![n] = NextBackoff(@)]
    /\ task_pc' = [task_pc EXCEPT ![n] = "sleep"]
    /\ task_exc' = [task_exc EXCEPT ![n] = "none"]

\* pipe.py:127-129, 139-140: n's sleep is over, a new attempt starts with
\* nothing in its locals and waits for the channel.
T_SleepDone(n) ==
    /\ Free
    /\ task_pc[n] = "sleep"
    /\ task_pc' = [task_pc EXCEPT ![n] = "connect"]
    /\ channel_of' = [channel_of EXCEPT ![n] = "none"]
    /\ subprocess_of' = [subprocess_of EXCEPT ![n] = "none"]
    /\ sigs' = [sigs EXCEPT ![n] = << >>]
    /\ UNCHANGED << sessionVars, configVars, run_state, tasks, attempt_of,
                    backoff_of, task_exc, delivered, resolve_failures,
                    flag_reads, holder >>

\* pipe.py:140, 165-167: websockets.connect raises.
T_ConnectFail(n) ==
    /\ Free
    /\ task_pc[n] = "connect"
    /\ attempt_of[n] < OrchMaxFailures
    /\ OnExceptionOf(n)
    /\ UNCHANGED << sessionVars, configVars, run_state, tasks, channel_of,
                    subprocess_of, sigs, delivered, resolve_failures,
                    flag_reads, holder >>

\* pipe.py:140-161: the channel is open; then, in the same step,
\* build_server_command(n) returns a command or raises, and Popen spawns the
\* subprocess or raises.
T_ConnectOK(n) ==
    /\ Free
    /\ task_pc[n] = "connect"
    /\ attempt_of[n] < OrchMaxFailures
    /\ channel_of' = [channel_of EXCEPT ![n] = "open"]
    /\ LET r == build_server_command(n)
       IN  /\ flag_reads' = flag_reads \cup
                  (IF r.flag THEN { << "build_server_command", n >> } ELSE { })
           /\ IF r.error # ""
                THEN /\ task_exc' = [task_exc EXCEPT ![n] = r.error]
                     /\ resolve_failures' = [resolve_failures EXCEPT ![n] = @ + 1]
                     /\ task_pc' = [task_pc EXCEPT ![n] = "aexit"]
                     /\ UNCHANGED subprocess_of
                ELSE /\ UNCHANGED resolve_failures
                     /\ \E spawned \in BOOLEAN :
                          IF spawned
                            THEN /\ subprocess_of' = [subprocess_of EXCEPT ![n] = "running"]
                                 /\ task_pc' = [task_pc EXCEPT ![n] = "gather"]
                                 /\ UNCHANGED task_exc
                            ELSE /\ task_exc' = [task_exc EXCEPT ![n] = "SpawnError"]
                                 /\ task_pc' = [task_pc EXCEPT ![n] = "aexit"]
                                 /\ UNCHANGED subprocess_of
    /\ UNCHANGED << sessionVars, configVars, run_state, tasks, attempt_of,
                    backoff_of, sigs, delivered, holder >>

\* pipe.py:182-191: n's inbound pump receives a message and writes it to the
\* subprocess: the write and the flush are synchronous calls on the event
\* loop's thread.  They return at once while the pipe has room, they do not
\* return while it is full and the subprocess does not read (the thread is
\* then held), and the flush raises when the subprocess has exited, which
\* gather passes on.
T_Inbound(n) ==
    /\ Free
    /\ task_pc[n] = "gather"
    /\ channel_of[n] = "open"
    /\ delivered[n] < OrchMaxMsgs
    /\ delivered' = [delivered EXCEPT ![n] = @ + 1]
    /\ IF subprocess_of[n] = "running"
         THEN /\ \E room \in BOOLEAN : holder' = IF room THEN "" ELSE n
              /\ UNCHANGED << task_pc, task_exc >>
         ELSE /\ task_exc' = [task_exc EXCEPT ![n] = "BrokenPipeError"]
              /\ task_pc' = [task_pc EXCEPT ![n] = "aexit"]
              /\ UNCHANGED holder
    /\ UNCHANGED << sessionVars, configVars, run_state, tasks, attempt_of,
                    backoff_of, channel_of, subprocess_of, sigs,
                    resolve_failures, flag_reads >>

\* pipe.py:187-191: the write that held the thread returns (the subprocess
\* has read) or raises (the subprocess has exited); after a shutdown request
\* the pump is at its end either way and the task is left to be cancelled.
T_WriteReturn(n) ==
    /\ holder = n
    /\ task_pc[n] = "gather"
    /\ holder' = ""
    /\ IF subprocess_of[n] = "running" \/ run_state # "running"
         THEN UNCHANGED << task_pc, task_exc >>
         ELSE /\ task_exc' = [task_exc EXCEPT ![n] = "BrokenPipeError"]
              /\ task_pc' = [task_pc EXCEPT ![n] = "aexit"]
    /\ UNCHANGED << sessionVars, configVars, run_state, tasks, attempt_of,
                    backoff_of, channel_of, subprocess_of, sigs, delivered,
                    resolve_failures, flag_reads >>

\* pipe.py:157-164, 182: recv() raises on a channel the peer closed; gather
\* passes the exception on.
T_Gather(n) ==
    /\ Free
    /\ task_pc[n] = "gather"
    /\ channel_of[n] = "dropped"
    /\ task_exc' = [task_exc EXCEPT ![n] = "ConnectionClosed"]
    /\ task_pc' = [task_pc EXCEPT ![n] = "aexit"]
    /\ UNCHANGED << sessionVars, configVars, run_state, tasks, attempt_of,
                    backoff_of, channel_of, subprocess_of, sigs, delivered,
                    resolve_failures, flag_reads, holder >>

\* pipe.py:140 (leaving `async with`) and 168-173: the channel is closed;
\* then the finally clause, with a subprocess in locals() that is running,
\* sends SIGTERM and calls process.wait(timeout=5), a synchronous call that
\* holds the thread; with none, or one that has exited, the exception goes
\* on to connect_with_retry in the same step.
T_AExit(n) ==
    /\ Free
    /\ task_pc[n] = "aexit"
    /\ channel_of' = [channel_of EXCEPT ![n] = "closed"]
    /\ IF subprocess_of[n] = "running"
         THEN /\ sigs' = [sigs EXCEPT ![n] = << "SIGTERM" >>]
              /\ task_pc' = [task_pc EXCEPT ![n] = "wait"]
              /\ holder' = n
              /\ UNCHANGED << attempt_of, backoff_of, task_exc >>
         ELSE /\ OnExceptionOf(n)
              /\ UNCHANGED << sigs, holder >>
    /\ UNCHANGED << sessionVars, configVars, run_state, tasks, subprocess_of,
                    delivered, resolve_failures, flag_reads >>

\* Mutant of T_WaitReturn: no grace period, kill() follows the wait whether
\* or not the subprocess has exited.
T_WaitReturnNoGrace(n) ==
    /\ holder = n
    /\ task_pc[n] = "wait"
    /\ run_state = "running"
    /\ holder' = ""
    /\ subprocess_of' = [subprocess_of EXCEPT ![n] = "killed"]
    /\ sigs' = [sigs EXCEPT ![n] = Append(@, "SIGKILL")]
    /\ OnExceptionOf(n)
    /\ UNCHANGED << sessionVars, configVars, run_state, tasks, channel_of,
                    delivered, resolve_failures, flag_reads >>

\* pipe.py:173-176, 131-134: process.wait returns because the subprocess has
\* exited, or raises TimeoutExpired and the subprocess is killed; the
\* exception of the attempt goes on to connect_with_retry.
T_WaitReturn(n) ==
    /\ holder = n
    /\ task_pc[n] = "wait"
    /\ run_state = "running"
    /\ holder' = ""
    /\ IF subprocess_of[n] = "running"
         THEN /\ subprocess_of' = [subprocess_of EXCEPT ![n] = "killed"]
              /\ sigs' = [sigs EXCEPT ![n] = Append(@, "SIGKILL")]
         ELSE UNCHANGED << subprocess_of, sigs >>
    /\ OnExceptionOf(n)
    /\ UNCHANGED << sessionVars, configVars, run_state, tasks, channel_of,
                    delivered, resolve_failures, flag_reads >>

\* The remote peer closes n's channel, or the connection drops.
T_PeerClose(n) ==
    /\ run_state = "running"
    /\ channel_of[n] = "open"
    /\ channel_of' = [channel_of EXCEPT ![n] = "dropped"]
    /\ UNCHANGED << sessionVars, configVars, run_state, tasks, task_pc,
                    attempt_of, backoff_of, task_exc, subprocess_of, sigs,
                    delivered, resolve_failures, flag_reads, holder >>

\* n's subprocess exits, on its own or on the SIGTERM it was sent.
T_ProcessExit(n) ==
    /\ run_state \in { "running", "shutdown" }
    /\ subprocess_of[n] = "running"
    /\ subprocess_of' = [subprocess_of EXCEPT ![n] = "exited"]
    /\ UNCHANGED << sessionVars, configVars, run_state, tasks, task_pc,
                    attempt_of, backoff_of, task_exc, channel_of, sigs,
                    delivered, resolve_failures, flag_reads, holder >>

\* ------------------------------------------- shutdown (258-261, 277-282)

\* pipe.py:258-261, 266: SIGINT; signal_handler runs on the main thread, in
\* whatever that thread is executing, and sys.exit(0) raises SystemExit
\* there.  In the event loop's wait it ends run_forever.  In process.wait of
\* n's finally clause (173) it is not a TimeoutExpired: kill() is skipped and
\* n's task ends with it.  In a blocked write it is raised in the pump, whose
\* finally clause (193-194) closes stdin and so flushes the same data again.
Sigint ==
    /\ run_state = "running"
    /\ run_state' = "shutdown"
    /\ IF holder # "" /\ task_pc[holder] = "wait"
         THEN /\ task_pc' = [task_pc EXCEPT ![holder] = "done"]
              /\ holder' = ""
         ELSE UNCHANGED << task_pc, holder >>
    /\ UNCHANGED << sessionVars, configVars, tasks, attempt_of, backoff_of,
                    task_exc, channel_of, subprocess_of, sigs, delivered,
                    resolve_failures, flag_reads >>

\* Mutant of T_Cancel: the cancellation is taken for a failure of the
\* attempt, as an Exception would be.
T_CancelAsFailure(n) ==
    /\ run_state = "shutdown"
    /\ holder = ""
    /\ task_pc[n] \in { "connect", "gather", "aexit", "sleep" }
    /\ attempt_of[n] < OrchMaxFailures
    /\ OnExceptionOf(n)
    /\ UNCHANGED << sessionVars, configVars, run_state, tasks, channel_of,
                    subprocess_of, sigs, delivered, resolve_failures,
                    flag_reads, holder >>

\* pipe.py:278 (asyncio.run cancels the tasks that are left and runs them to
\* their end), 140, 168-176: CancelledError is raised in n where it is
\* suspended.  It is not an Exception: no except clause of the bridge takes
\* it.  With a channel open the `async with` closes it, with a subprocess in
\* locals() the finally clause tears it down, and the task ends.
T_Cancel(n) ==
    /\ run_state = "shutdown"
    /\ holder = ""
    /\ task_pc[n] \in { "connect", "gather", "aexit", "sleep" }
    /\ task_pc' = [task_pc EXCEPT ![n] = "done"]
    /\ channel_of' = [channel_of EXCEPT ![n] =
                        IF @ \in { "open", "dropped" } THEN "closed" ELSE @]
    /\ IF task_pc[n] \in { "gather", "aexit" } /\ subprocess_of[n] = "running"
         THEN \E how \in { "exited", "killed" } :
                /\ subprocess_of' = [subprocess_of EXCEPT ![n] = how]
                /\ sigs' = [sigs EXCEPT ![n] =
                              IF how = "exited" THEN << "SIGTERM" >>
                                                ELSE << "SIGTERM", "SIGKILL" >>]
         ELSE UNCHANGED << subprocess_of, sigs >>
    /\ UNCHANGED << sessionVars, configVars, run_state, tasks, attempt_of,
                    backoff_of, task_exc, delivered, resolve_failures,
                    flag_reads, holder >>

\* pipe.py:278-282: every task has ended, asyncio.run returns or raises, and
\* main returns: the bridge process exits.
Exit ==
    /\ run_state = "shutdown"
    /\ holder = ""
    /\ \A n \in Names : task_pc[n] \in { "none", "done" }
    /\ run_state' = "exited"
    /\ UNCHANGED << sessionVars, configVars, tasks, taskVars, flag_reads, holder >>

OrchNext ==
    \/ Run
    \/ \E n \in Names : T_SleepDone(n)
    \/ \E n \in Names : T_ConnectFail(n)
    \/ \E n \in Names : T_ConnectOK(n)
    \/ \E n \in Names : T_Inbound(n)
    \/ \E n \in Names : T_WriteReturn(n)
    \/ \E n \in Names : T_Gather(n)
    \/ \E n \in Names : T_AExit(n)
    \/ \E n \in Names : T_WaitReturn(n)
    \/ \E n \in Names : T_PeerClose(n)
    \/ \E n \in Names : T_ProcessExit(n)
    \/ Sigint
    \/ \E n \in Names : T_Cancel(n)
    \/ Exit

OrchSpec == OrchInit /\ [][OrchNext]_vars

\* A step of target n that the event loop takes on its own once the awaited
\* operation has completed or the synchronous call has returned.
TaskStep(n) ==
    \/ T_SleepDone(n)
    \/ T_Gather(n)
    \/ T_AExit(n)
    \/ T_WaitReturn(n)
    \/ T_WriteReturn(n)

\* The event loop keeps running every task: process.wait(timeout=5) returns
\* or times out, and a subprocess whose pipe is full reads or exits in the
\* end.  Nothing is assumed of the peers or of the outcome of an attempt.
OrchFairness == \A n \in Names : WF_vars(TaskStep(n))

\* A run in multi-target mode on a table with an entry for every name.
MultiInit ==
    /\ SessionInit
    /\ OrchIdle
    /\ target_arg = ""
    /\ mcpServers \in [Names -> Entries]
    /\ mcpServers["s.py"] \in { StdioEntry, BadTypeEntry }
    /\ files = { }

FairOrchSpec == MultiInit /\ [][OrchNext]_vars /\ OrchFairness

\* ============================================ MCPPipe.load_config (47-64)

\* What the configuration file may hold when it is there and parses: the
\* documents null, a list, {}, and two with a table.
JsonValues ==
    { PyNone,
      [ kind |-> "list", servers |-> << >> ],
      EmptySnapshot,
      [ kind |-> "dict", servers |-> [ n \in { "srv" } |-> StdioEntry ] ],
      [ kind |-> "dict", servers |-> [ n \in { "srv" } |-> DisabledEntry ] ] }

\* The states of the file: not there, there but not JSON (or not readable),
\* there with a document.
Sources ==
    { [ file |-> "missing", value |-> PyNone ],
      [ file |-> "unparsable", value |-> PyNone ] }
    \cup { [ file |-> "json", value |-> v ] : v \in JsonValues }

\* Mutant of LoadOutcome: the try/except around the read is missing.
LoadOutcomeNoCatch(src) ==
    IF src.file = "missing" THEN EmptySnapshot
    ELSE IF src.file = "unparsable"
           THEN [ kind |-> "JSONDecodeError", servers |-> << >> ]
           ELSE src.value

\* pipe.py:52-62: what a call that finds no memo stores in self._config: {}
\* when the path does not exist, {} when open or json.load raises, and the
\* document otherwise.
LoadOutcome(src) ==
    IF src.file = "missing" THEN EmptySnapshot
    ELSE IF src.file = "unparsable" THEN EmptySnapshot
    ELSE src.value

\* pipe.py:49-64: one call of load_config.  The memo is returned when it is
\* not None; otherwise the file is looked for, read when it exists, and the
\* outcome is stored and returned.
LoadCall ==
    /\ Len(returned) < MaxCalls
    /\ IF config # PyNone
         THEN UNCHANGED << config, reads >>
         ELSE /\ config' = LoadOutcome(source)
              /\ reads' = reads + (IF source.file = "missing" THEN 0 ELSE 1)
    /\ returned' = Append(returned, config')

\* load_config called by build_server_command (pipe.py:76).
LoadConfig ==
    /\ LoadCall
    /\ UNCHANGED << sessionVars, target_arg, mcpServers, files, source,
                    multi_result, resolved, run_state, tasks, taskVars,
                    flag_reads, holder,
                    webVars, robotVars >>

\* pipe.py:236-249: how run(None) goes on with the snapshot cfg: cfg.get
\* needs a dict; without an enabled entry run raises; otherwise the tasks
\* are started.
RunOutcome(cfg) ==
    IF cfg.kind # "dict" THEN "AttributeError"
    ELSE IF enabled_in(cfg.servers) = << >> THEN "RuntimeError: no enabled mcpServers"
    ELSE "started"

\* pipe.py:235-249: run in multi-target mode, from its call of load_config.
RunMulti ==
    /\ multi_result = "none"
    /\ LoadCall
    /\ multi_result' = RunOutcome(config')
    /\ UNCHANGED << sessionVars, target_arg, mcpServers, files, source,
                    resolved, run_state, tasks, taskVars, flag_reads, holder,
                    webVars, robotVars >>

\* The file is created, removed or rewritten.
SourceChange ==
    /\ source' \in Sources \ { source }
    /\ UNCHANGED << sessionVars, target_arg, mcpServers, files, config, reads,
                    returned, multi_result, resolved, run_state, tasks,
                    taskVars, flag_reads, holder,
                    webVars, robotVars >>

\* A new MCPPipe (pipe.py:43-45), with the file in any state.
ConfigInit ==
    /\ SessionInit
    /\ NoTasks
    /\ source \in Sources
    /\ config = PyNone
    /\ reads = 0
    /\ returned = << >>
    /\ multi_result = "none"
    /\ resolved = NotResolved
    /\ WebIdle
    /\ RobotIdle

ConfigNext ==
    \/ LoadConfig
    \/ RunMulti
    \/ SourceChange

ConfigSpec == ConfigInit /\ [][ConfigNext]_vars

\* ================================= MCPPipe.build_server_command (66-116)

\* Header values: a JSON string and a JSON number.
TextHeader == [ key |-> "A", value |-> [ json |-> "string", text |-> "x", number |-> 0 ] ]
NumberHeader == [ key |-> "N", value |-> [ json |-> "number", text |-> "", number |-> 7 ] ]

\* The entries a table may hold: every combination of the flag, the two
\* kind fields, a command or none, a url or none, and zero to two headers.
AnyEntries ==
    [ disabled : BOOLEAN,
      type : { "", "stdio", "SSE", "http", "streamablehttp", "grpc" },
      transportType : { "", "sse" },
      command : { "", "cmd" },
      args : { << "--x" >> },
      url : { "", "http://u" },
      headers : { << >>, << TextHeader >>, << TextHeader, NumberHeader >>,
                  << NumberHeader, TextHeader >> } ]

\* The tables of the file: none, or one entry under one of the names.
Tables ==
    { << >> } \cup UNION { [ { n } -> AnyEntries ] : n \in Names }

\* pipe.py:76-116: one call of build_server_command, for any target:
\* load_config, the table of the snapshot, then the command or the error.
Resolve ==
    \E target \in Names :
        /\ LoadCall
        /\ resolved' = [ target |-> target,
                         result |-> command_for(servers_of(config'), files, target) ]
        /\ UNCHANGED << sessionVars, target_arg, mcpServers, files, source,
                        multi_result, run_state, tasks, taskVars, flag_reads,
                        holder,
                    webVars, robotVars >>

\* A new MCPPipe with a file that holds any of the tables (or no file), and
\* any of the scripts on disk.
ResolveInit ==
    /\ SessionInit
    /\ target_arg = ""
    /\ mcpServers = << >>
    /\ files \in { { }, { "s.py" }, { "srv", "s.py" } }
    /\ NoTaskState
    /\ source \in { [ file |-> "missing", value |-> PyNone ] }
                    \cup { [ file |-> "json",
                             value |-> [ kind |-> "dict", servers |-> tbl ] ] :
                           tbl \in Tables }
    /\ config = PyNone
    /\ reads = 0
    /\ returned = << >>
    /\ multi_result = "none"
    /\ resolved = NotResolved
    /\ WebIdle
    /\ RobotIdle

ResolveNext == Resolve

ResolveSpec == ResolveInit /\ [][ResolveNext]_vars

\* ============================================ SessionManager (web/session.py)

UserIds == { "u1", "u2" }
Usernames == { "alice", "bob" }

\* list.remove(u) for a u that is in the list: the first occurrence goes.
RECURSIVE Remove(_, _)
Remove(seq, u) ==
    IF seq = << >> THEN << >>
    ELSE IF Head(seq) = u THEN Tail(seq)
    ELSE << Head(seq) >> \o Remove(Tail(seq), u)

\* session.py:102-103 and 211-212: append unless empty or already waiting.
AppendNew(seq, username) ==
    IF username # "" /\ username # None /\ username \notin Range(seq)
      THEN Append(seq, username)
      ELSE seq

\* Mutant of try_acquire_control: a VIP caller is not made to queue.
try_acquire_controlVipPreempts(user_id, username, is_vip) ==
    IF /\ ~is_vip
       /\ active_user.id # None
       /\ now - active_user.start_time <
            (IF active_user.is_vip THEN VIP_SESSION_TIMEOUT_SECONDS
                                   ELSE SESSION_TIMEOUT_SECONDS)
       /\ active_user.id # user_id
      THEN /\ waiting_users' = AppendNew(waiting_users, username)
           /\ UNCHANGED active_user
           /\ ret' = "False"
      ELSE /\ active_user' = [ id |-> user_id, username |-> username,
                               start_time |-> now, is_vip |-> is_vip ]
           /\ waiting_users' = IF username \in Range(waiting_users)
                                 THEN Remove(waiting_users, username)
                                 ELSE waiting_users
           /\ ret' = "True"

\* session.py:81-116, under the lock.
try_acquire_control(user_id, username, is_vip) ==
    IF /\ active_user.id # None
       /\ now - active_user.start_time <
            (IF active_user.is_vip THEN VIP_SESSION_TIMEOUT_SECONDS
                                   ELSE SESSION_TIMEOUT_SECONDS)
       /\ active_user.id # user_id
      THEN /\ waiting_users' = AppendNew(waiting_users, username)
           /\ UNCHANGED active_user
           /\ ret' = "False"
      ELSE /\ active_user' = [ id |-> user_id, username |-> username,
                               start_time |-> now, is_vip |-> is_vip ]
           /\ waiting_users' = IF username \in Range(waiting_users)
                                 THEN Remove(waiting_users, username)
                                 ELSE waiting_users
           /\ ret' = "True"

\* Mutant of release_control: the caller's id is not compared.
release_controlByAnyone(user_id) ==
    /\ active_user' = NoActiveUser
    /\ waiting_users' = IF active_user.username \in Range(waiting_users)
                          THEN Remove(waiting_users, active_user.username)
                          ELSE waiting_users
    /\ ret' = "True"

\* session.py:118-141, under the lock.
release_control(user_id) ==
    IF active_user.id # user_id
      THEN /\ UNCHANGED << active_user, waiting_users >>
           /\ ret' = "False"
      ELSE /\ active_user' = NoActiveUser
           /\ waiting_users' = IF active_user.username \in Range(waiting_users)
                                 THEN Remove(waiting_users, active_user.username)
                                 ELSE waiting_users
           /\ ret' = "True"

\* A request is served: its route and its cookies are noted.  Every route
\* calls a method of the manager that takes the lock (session.py:92, 127,
\* 210), and releases it on return.
Request(op, user_id, username, is_vip) ==
    /\ requests < MaxRequests
    /\ lock = "free"
    /\ requests' = requests + 1
    /\ call' = [ op |-> op, user_id |-> user_id, username |-> username,
                 is_vip |-> is_vip ]
    /\ UNCHANGED << lock, now, pipeVars, robotVars >>

\* pi_client controller.py:54-88: GET / with a username cookie; the id is
\* the session cookie or a new uuid.
index ==
    \E user_id \in UserIds, username \in Usernames :
        /\ Request("index", user_id, username, FALSE)
        /\ try_acquire_control(user_id, username, FALSE)
        /\ response' = IF ret' = "True" THEN "index.html" ELSE "429 waiting.html"

\* pi_client controller.py:90-110: GET /vip with a username cookie.  What
\* try_acquire_control returns is not looked at.
vip ==
    \E user_id \in UserIds, username \in Usernames :
        /\ Request("vip", user_id, username, TRUE)
        /\ try_acquire_control(user_id, username, TRUE)
        /\ response' = "index.html"

\* pi_client controller.py:112-129 and session.py:208-212: GET /wait.
wait ==
    \E username \in Usernames :
        /\ Request("wait", None, username, FALSE)
        /\ waiting_users' = AppendNew(waiting_users, username)
        /\ ret' = "None"
        /\ response' = "waiting.html"
        /\ UNCHANGED active_user

\* pi_client controller.py:153-169: POST /exit_control; the id is the session
\* cookie, None without one.
exit_control ==
    \E user_id \in UserIds \cup { None } :
        /\ Request("exit_control", user_id, None, FALSE)
        /\ release_control(user_id)
        /\ response' = IF ret' = "True" THEN "200" ELSE "403"

\* Time passes.
Tick ==
    /\ now + TickSeconds <= MaxNow
    /\ now' = now + TickSeconds
    /\ UNCHANGED << active_user, waiting_users, lock, requests, call, ret,
                    response, pipeVars, robotVars >>

\* session.py:73-79 and 52-60: is_active_user takes the lock and compares
\* the ids; when they are equal it calls is_session_active, which waits for
\* the same lock (a threading.Lock, which its holder cannot take again): the
\* call never returns and the lock is never released.
is_active_user ==
    \E user_id \in UserIds \cup { None } :
        /\ requests < MaxRequests
        /\ lock = "free"
        /\ requests' = requests + 1
        /\ call' = [ op |-> "is_active_user", user_id |-> user_id,
                     username |-> None, is_vip |-> FALSE ]
        /\ IF active_user.id = user_id
             THEN /\ lock' = "is_active_user"
                  /\ ret' = "blocked"
             ELSE /\ lock' = "free"
                  /\ ret' = "False"
        /\ response' = "none"
        /\ UNCHANGED << active_user, waiting_users, now, pipeVars, robotVars >>

WebInit ==
    /\ SessionInit
    /\ NoRun
    /\ WebIdle

WebNext ==
    \/ index
    \/ vip
    \/ wait
    \/ exit_control
    \/ is_active_user
    \/ Tick

WebSpec == WebInit /\ [][WebNext]_vars

\* ==================================== RobotService (core/robot_service.py)

PredefinedCommands == { "forward", "rotate_left", "stop", "dance" }
CustomVelocities == { [ x_vel |-> "0.1", y_vel |-> "0.0", theta_vel |-> "0.0" ] }
Durations == { 0, 1, 2 }

\* robot_service.py:295-314: the velocity fields a predefined command gives;
\* "stop" and a command that is not known leave them at zero.
VelocityOf(command) ==
    CASE command = "forward" -> [ ZeroVelocity EXCEPT !.x_vel = "linear_speed" ]
      [] command = "backward" -> [ ZeroVelocity EXCEPT !.x_vel = "-linear_speed" ]
      [] command = "left" -> [ ZeroVelocity EXCEPT !.y_vel = "linear_speed" ]
      [] command = "right" -> [ ZeroVelocity EXCEPT !.y_vel = "-linear_speed" ]
      [] command = "rotate_left" -> [ ZeroVelocity EXCEPT !.theta_vel = "angular_speed" ]
      [] command = "rotate_right" -> [ ZeroVelocity EXCEPT !.theta_vel = "-angular_speed" ]
      [] OTHER -> ZeroVelocity

KnownCommands ==
    { "forward", "backward", "left", "right", "rotate_left", "rotate_right", "stop" }

\* robot_service.py:279-329, under the lock: the fields are zeroed, then set
\* for the command; last_command_time is refreshed unless the command is not
\* known.  The service is connected.
execute_predefined_command(command) ==
    /\ current_action' = VelocityOf(command)
    /\ last_command_time' = IF command \in KnownCommands THEN clock
                                                         ELSE last_command_time

\* robot_service.py:331-359, under the lock.
execute_custom_velocity(velocity) ==
    /\ current_action' = velocity
    /\ last_command_time' = clock

\* A caller issues its command: the command gets the next number.
Issue ==
    /\ issued < MaxCommands
    /\ issued' = issued + 1
    /\ set_by' = [ id |-> issued + 1, by |-> "command" ]
    /\ UNCHANGED << clock, loop_pc, pipeVars, webVars >>

\* robot_service.py:376-377: stop_after_duration is started for the command.
StartTimer(duration) ==
    timers' = [ timers EXCEPT ![issued + 1] =
                  [ pc |-> "start", duration |-> duration, end_time |-> 0 ] ]

\* robot_service.py:361-384: move_robot_for_duration.  With duration 0 this
\* is execute_predefined_command alone.
move_robot_for_duration ==
    \E command \in PredefinedCommands, duration \in Durations :
        /\ Issue
        /\ execute_predefined_command(command)
        /\ IF command \in KnownCommands /\ command # "stop" /\ duration > 0
             THEN StartTimer(duration)
             ELSE UNCHANGED timers

\* robot_service.py:386-412: move_robot_with_custom_speed_for_duration.
move_robot_with_custom_speed_for_duration ==
    \E velocity \in CustomVelocities, duration \in Durations :
        /\ Issue
        /\ execute_custom_velocity(velocity)
        /\ IF duration > 0 THEN StartTimer(duration) ELSE UNCHANGED timers

RobotFrame == UNCHANGED << clock, loop_pc, issued, pipeVars, webVars >>

\* robot_service.py:369 (and 395): the thread computes end_time.
TimerStart(c) ==
    /\ timers[c].pc = "start"
    /\ timers' = [ timers EXCEPT ![c].pc = "loop",
                                 ![c].end_time = clock + timers[c].duration ]
    /\ UNCHANGED << current_action, last_command_time, set_by >>
    /\ RobotFrame

\* robot_service.py:370-373 (and 396-399): the loop test; while the time is
\* not up last_command_time is refreshed under the lock and the thread sleeps.
TimerLoop(c) ==
    /\ timers[c].pc = "loop"
    /\ IF clock < timers[c].end_time
         THEN /\ last_command_time' = clock
              /\ timers' = [ timers EXCEPT ![c].pc = "sleep" ]
         ELSE /\ timers' = [ timers EXCEPT ![c].pc = "stop" ]
              /\ UNCHANGED last_command_time
    /\ UNCHANGED << current_action, set_by >>
    /\ RobotFrame

\* robot_service.py:373: time.sleep(0.1) returns.
TimerWake(c) ==
    /\ timers[c].pc = "sleep"
    /\ timers' = [ timers EXCEPT ![c].pc = "loop" ]
    /\ UNCHANGED << current_action, last_command_time, set_by >>
    /\ RobotFrame

\* robot_service.py:374 (and 400): self.execute_predefined_command("stop").
TimerStop(c) ==
    /\ timers[c].pc = "stop"
    /\ execute_predefined_command("stop")
    /\ timers' = [ timers EXCEPT ![c].pc = "done" ]
    /\ set_by' = [ id |-> c, by |-> "timer" ]
    /\ RobotFrame

\* robot_service.py:520: the timeout test, made without the lock.
LoopCheck ==
    /\ loop_pc = "check"
    /\ loop_pc' = IF clock - last_command_time > command_timeout_s
                    THEN "zero" ELSE "send"
    /\ UNCHANGED << current_action, last_command_time, clock, issued, timers,
                    set_by, pipeVars, webVars >>

\* robot_service.py:521-526: the lock is taken and the fields are zeroed.
LoopZero ==
    /\ loop_pc = "zero"
    /\ current_action' = ZeroVelocity
    /\ set_by' = [ id |-> 0, by |-> "loop" ]
    /\ loop_pc' = "send"
    /\ UNCHANGED << last_command_time, clock, issued, timers, pipeVars, webVars >>

\* robot_service.py:528-535: the action is copied under the lock and sent,
\* and the loop sleeps until its next round.
LoopSend ==
    /\ loop_pc = "send"
    /\ loop_pc' = "check"
    /\ UNCHANGED << current_action, last_command_time, clock, issued, timers,
                    set_by, pipeVars, webVars >>

\* A second passes.  A thread that can run has run by then (none is kept
\* from running for a second), and every sleep of 0.1 s is over.
ClockTick ==
    /\ clock < MaxClock
    /\ \A c \in 1..MaxCommands : timers[c].pc \notin { "start", "loop", "stop" }
    /\ clock' = clock + 1
    /\ timers' = [ c \in 1..MaxCommands |->
                     IF timers[c].pc = "sleep" THEN [ timers[c] EXCEPT !.pc = "loop" ]
                                               ELSE timers[c] ]
    /\ UNCHANGED << current_action, last_command_time, loop_pc, issued, set_by,
                    pipeVars, webVars >>

RobotInit ==
    /\ SessionInit
    /\ NoRun

RobotNext ==
    \/ move_robot_for_duration
    \/ move_robot_with_custom_speed_for_duration
    \/ \E c \in 1..MaxCommands : TimerStart(c)
    \/ \E c \in 1..MaxCommands : TimerLoop(c)
    \/ \E c \in 1..MaxCommands : TimerWake(c)
    \/ \E c \in 1..MaxCommands : TimerStop(c)
    \/ LoopCheck
    \/ LoopZero
    \/ LoopSend
    \/ ClockTick

RobotSpec == RobotInit /\ [][RobotNext]_vars

\* ================================================================ claims

IsPrefix(a, b) == Len(a) <= Len(b) /\ \A i \in 1..Len(a) : a[i] = b[i]

\* Number of newline characters in a text, i.e. of lines it holds once
\* written to a text stream.
RECURSIVE CountNL(_)
CountNL(text) ==
    IF text = << >> THEN 0
    ELSE (IF Head(text) = NL THEN 1 ELSE 0) + CountNL(Tail(text))

\* C1 (as claimed): the delay slept after the n-th failure is
\* min(INITIAL_BACKOFF * 2^(n-1), MAX_BACKOFF): 1, 2, 4, 8, ..., 600.
C1_SleptDelaysStartAtInitial ==
    \A n \in 1..Len(sleeps) :
        sleeps[n] = Min(INITIAL_BACKOFF * 2^(n - 1), MAX_BACKOFF)

\* C2: the backoff delay stays within [INITIAL_BACKOFF, MAX_BACKOFF], so does
\* every slept delay, and no slept delay is smaller than an earlier one.
C2_BackoffBoundedAndMonotone ==
    /\ INITIAL_BACKOFF <= backoff /\ backoff <= MAX_BACKOFF
    /\ \A i \in 1..Len(sleeps) :
         /\ INITIAL_BACKOFF <= sleeps[i] /\ sleeps[i] <= MAX_BACKOFF
         /\ \A j \in i..Len(sleeps) : sleeps[i] <= sleeps[j]

\* C2 witness: the cap has been reached and slept again, with a period of
\* operation (a spawned subprocess) among the failures.
C2_Witness ==
    /\ Len(sleeps) >= 11
    /\ sleeps[Len(sleeps)] = MAX_BACKOFF
    /\ sleeps[Len(sleeps) - 1] = MAX_BACKOFF
    /\ \E s \in Sessions : process[s] \in { "exited", "killed" }

\* C3: every step leaves the attempt counter alone or adds one to it, every
\* failure (an attempt ending in the backoff sleep) adds exactly one, and
\* once a failure has been counted neither the counter nor the delay is back
\* at its initial value, also when the failed attempt had been Active.
C3_AttemptCounterNeverReset ==
    [][ /\ reconnect_attempt' \in { reconnect_attempt, reconnect_attempt + 1 }
        /\ (pc # "sleep" /\ pc' = "sleep"
              => reconnect_attempt' = reconnect_attempt + 1)
        /\ backoff' >= backoff
        /\ (reconnect_attempt >= 1
              => reconnect_attempt' >= 1 /\ backoff' > INITIAL_BACKOFF) ]_vars

\* C3 witness: a second failure is being slept off, and the attempt that
\* failed last had reached Active (it owns a subprocess).
C3_Witness ==
    /\ pc = "sleep"
    /\ reconnect_attempt >= 2
    /\ local_process # 0
    /\ process[local_process] \in { "exited", "killed" }

C5_OneSleepBeforeEachRetry ==
    /\ (attempts = 0 => pc = "start" /\ sleeps = << >>)
    /\ (attempts >= 1 => Len(sleeps) = attempts - 1)
    /\ (pc = "sleep" => attempts = reconnect_attempt)
    /\ (pc \in { "connect", "gather", "aexit" } => attempts = reconnect_attempt + 1)

\* C5 witness: the first attempt was an Active session whose channel went
\* down; the reconnection that follows has started, after one completed sleep.
C5_Witness ==
    /\ pc = "connect"
    /\ attempts = 2
    /\ Len(sleeps) = 1
    /\ process[1] # "none"
    /\ websocket[1] = "closed"

\* C6: when a backoff sleep starts, and when the connection attempt that
\* follows it starts, no subprocess is running and no channel is open.
C6_TornDownBeforeRetry ==
    pc \in { "sleep", "connect" } =>
        \A s \in Sessions : websocket[s] # "open" /\ process[s] # "running"

\* C6 witness: a pump of an Active session raised on a dropped channel while
\* the subprocess was still running; the sleep has started with the channel
\* closed and the subprocess force-killed.
C6_Witness ==
    /\ pc = "sleep"
    /\ outPump = "ConnectionClosed"
    /\ websocket[pumps_of] = "closed"
    /\ process[pumps_of] = "killed"

\* C7: at most one channel is open and at most one subprocess is running;
\* an Active attempt runs its pumps on the channel it opened and on the
\* subprocess it spawned; every message sent carries a line of the
\* subprocess of the attempt whose channel it is sent on.
C7_ExclusiveOwnership ==
    /\ Cardinality({ s \in Sessions : websocket[s] = "open" }) <= 1
    /\ Cardinality({ s \in Sessions : process[s] = "running" }) <= 1
    /\ (pc = "gather" =>
          /\ PumpWebsocket = cur /\ PumpProcess = cur /\ local_process = cur
          /\ websocket[cur] # "none" /\ process[cur] # "none")
    /\ \A i \in 1..Len(sent) : sent[i].from = sent[i].on

\* C7 witness: the second session of the target is Active and has sent a
\* line, after the first one ran a subprocess of its own.
C7_Witness ==
    /\ pc = "gather"
    /\ cur = 2
    /\ process[1] \in { "exited", "killed" }
    /\ process[2] = "running"
    /\ websocket[2] = "open"
    /\ Len(sent) >= 1

\* C8 (as claimed): the chunks written to stdin are exactly the messages
\* received, each followed by a newline, in receipt order.
C8_WrittenEqualsReceived ==
    /\ Len(stdin) = Len(received)
    /\ \A i \in 1..Len(received) : stdin[i] = received[i] \o << "\n" >>

\* C8 (amended): the chunks written are, in receipt order, the messages
\* received, each followed by a newline; every message is written before the
\* next one is read; only the message whose write failed, which ends the
\* pump, is missing.
C8_WrittenIsReceivedButFailedWrite ==
    /\ Len(stdin) <= Len(received)
    /\ \A i \in 1..Len(stdin) : stdin[i] = received[i] \o << "\n" >>
    /\ (inPump # "BrokenPipeError" => Len(stdin) = Len(received))
    /\ (inPump = "BrokenPipeError" => Len(stdin) = Len(received) - 1)

\* C8 witness: two different messages were received and written in order.
C8_Witness ==
    /\ Len(received) = 2
    /\ Len(stdin) = 2
    /\ received[1] # received[2]
    /\ inPump = "recv"

\* C9: the messages sent are the lines the subprocess produced, in order,
\* one message per line read, none skipped or duplicated: every line read
\* has been sent, except the one in hand.
C9_SentEqualsLinesRead ==
    /\ nread <= Len(produced)
    /\ \A i \in 1..Len(sent) : i <= Len(produced) /\ sent[i].data = produced[i]
    /\ (outPump \in { "off", "read", "returned" } => Len(sent) = nread)
    /\ (outPump \in { "send", "ConnectionClosed" } => Len(sent) = nread - 1)

\* C9 witness: two different lines were produced and sent in order.
C9_Witness ==
    /\ Len(sent) = 2
    /\ sent[1].data # sent[2].data
    /\ outPump = "read"

\* C10 (as claimed): every chunk written to stdin for a message holds
\* exactly one line.
C10_OneLinePerMessage ==
    \A i \in 1..Len(stdin) : CountNL(stdin[i]) = 1

\* The data of the messages sent that hold more than the bare newline.
SentText == SelectSeq([i \in 1..Len(sent) |-> sent[i].data], LAMBDA d : d # << NL >>)

\* C11: with a subprocess that echoes its input and a channel that delivers
\* "A\n" then "B\n", the messages with text that the bridge sends back are
\* "A\n" then "B\n", each once, in that order; every line the bridge reads
\* is a line the subprocess echoed from what the bridge wrote.
C11_EchoPreservesOrder ==
    /\ IsPrefix(SentText, EchoScript)
    /\ IsPrefix(produced, SplitLines(Flatten(stdin), << >>))
    /\ IsPrefix(received, EchoScript)

\* C11 witness: both messages went through the subprocess and are back on
\* the channel.
C11_Witness ==
    /\ received = EchoScript
    /\ SentText = EchoScript
    /\ websocket[pumps_of] = "open"

\* ------------------------------------------------------------ C12 - C20

\* C12: the bridge sends a subprocess nothing, SIGTERM, or SIGTERM then
\* SIGKILL; a subprocess is force-killed only when it is still running
\* after SIGTERM, so one that has exited, on its own or within the grace
\* period, is never force-killed and gets no further signal; and the
\* teardown of an attempt whose subprocess has already exited sends no
\* signal, does not wait, and goes on to the backoff sleep without an error
\* of its own.
C12_GracefulThenForced ==
    [][ \A n \in Names :
          /\ sigs'[n] \in { << >>, << "SIGTERM" >>, << "SIGTERM", "SIGKILL" >> }
          /\ (subprocess_of'[n] = "killed" <=> sigs'[n] = << "SIGTERM", "SIGKILL" >>)
          /\ (subprocess_of'[n] = "killed" /\ subprocess_of[n] # "killed"
                => subprocess_of[n] = "running")
          /\ (subprocess_of[n] = "exited" /\ task_pc'[n] # "connect"
                => subprocess_of'[n] = "exited" /\ sigs'[n] = sigs[n])
          /\ (task_pc[n] = "aexit" /\ task_pc'[n] # "aexit"
                /\ subprocess_of[n] = "exited" /\ run_state' = "running"
                => /\ task_pc'[n] = "sleep" /\ holder' = holder
                   /\ attempt_of'[n] = attempt_of[n] + 1) ]_vars

\* C12 witness: two teardowns are done; one subprocess had exited before
\* its teardown and was sent nothing, the other exited on SIGTERM within
\* the grace period and was not killed.
C12_Witness ==
    \E n \in Names : \E m \in Names \ { n } :
        /\ task_pc[n] = "sleep" /\ channel_of[n] = "closed"
        /\ subprocess_of[n] = "exited" /\ sigs[n] = << >>
        /\ task_pc[m] = "sleep" /\ channel_of[m] = "closed"
        /\ subprocess_of[m] = "exited" /\ sigs[m] = << "SIGTERM" >>


\* The state of target n's session.
SessionOf(n) ==
    << task_pc[n], attempt_of[n], backoff_of[n], task_exc[n], channel_of[n],
       subprocess_of[n], sigs[n], delivered[n] >>

\* C13: while the run goes on, a step that changes anything of one target's
\* session (its position, attempt counter, backoff delay, channel,
\* subprocess) changes nothing of any other target's session.
C13_SessionsAreIsolated ==
    [][ run_state = "running" =>
          \A a \in Names : \A b \in Names \ { a } :
              SessionOf(a)' # SessionOf(a) => SessionOf(b)' = SessionOf(b) ]_vars

\* C13 witness: two sessions of one run; one has failed twice and sleeps
\* with its delay doubled twice, the other is at its first attempt, Active,
\* with its channel open and its subprocess running.
C13_Witness ==
    \E a \in Names : \E b \in Names \ { a } :
        /\ run_state = "running"
        /\ task_pc[a] = "sleep" /\ attempt_of[a] = 2 /\ backoff_of[a] = 4
        /\ task_pc[b] = "gather" /\ attempt_of[b] = 0
        /\ backoff_of[b] = INITIAL_BACKOFF
        /\ channel_of[b] = "open" /\ subprocess_of[b] = "running"

\* C14 (as claimed): while one session is in the wait of its teardown or in
\* a blocked write to its subprocess, another session whose sleep is over
\* can start its next attempt and another session's pump can take in the
\* message that has arrived for it.
C14_OthersStepDuringBlockingCall ==
    \A a \in Names : \A b \in Names \ { a } :
        run_state = "running" /\ holder = a =>
            /\ (task_pc[b] = "sleep" => ENABLED T_SleepDone(b))
            /\ (task_pc[b] = "gather" /\ channel_of[b] = "open"
                   /\ delivered[b] < OrchMaxMsgs => ENABLED T_Inbound(b))

\* The names of the table whose entry's flag is not set.
EnabledNames == { n \in DOMAIN mcpServers : mcpServers[n].disabled = FALSE }

\* C15: in multi-target mode, once run has looked at the table, there is
\* exactly one task for every entry whose flag is not set and none, with
\* nothing opened or spawned, for any other name; and when no entry is
\* enabled run has failed with its own error and there is no task.
C15_OneSessionPerEnabledEntry ==
    target_arg = "" /\ run_state # "init" =>
        /\ \A n \in EnabledNames :
               /\ Cardinality({ i \in 1..Len(tasks) : tasks[i] = n }) = 1
               /\ task_pc[n] # "none"
        /\ \A n \in Names \ EnabledNames :
               /\ n \notin Range(tasks)
               /\ task_pc[n] = "none" /\ attempt_of[n] = 0
               /\ channel_of[n] = "none" /\ subprocess_of[n] = "none"
        /\ (EnabledNames = { } <=> run_state = "RuntimeError: no enabled mcpServers")
        /\ (EnabledNames = { } => tasks = << >>)

\* C15 witness: a table with an enabled and a disabled entry; the enabled
\* one's session is Active.
C15_Witness ==
    /\ target_arg = ""
    /\ run_state = "running"
    /\ \E n \in Names : \E m \in Names \ { n } :
         /\ n \in EnabledNames
         /\ m \in DOMAIN mcpServers /\ mcpServers[m].disabled
         /\ task_pc[n] = "gather" /\ subprocess_of[n] = "running"

\* C16 (as claimed): with an explicit target that exists on disk there is
\* exactly one session, for that path, and no entry's disabled flag is ever
\* evaluated, by run or by the command resolution.
C16_ExplicitPathIgnoresFlags ==
    target_arg # "" /\ target_arg \in files /\ run_state # "init" =>
        /\ tasks = << target_arg >>
        /\ flag_reads = { }

\* The errors build_server_command raises.
ResolveErrors ==
    { "disabled", "missing command", "missing url", "unsupported type",
      "not a configured server nor an existing script" }

\* C17 (as claimed): when the command resolution of an attempt has failed,
\* that attempt has opened no channel and spawned no subprocess.
C17_ResolutionFailsBeforeChannel ==
    \A n \in Names :
        task_exc[n] \in ResolveErrors =>
            channel_of[n] = "none" /\ subprocess_of[n] = "none"

\* C18 (as claimed): once the command resolution has failed for a target,
\* its session is not in Backoff and starts no further attempt.
C18_ConfigErrorNotRetried ==
    \A n \in Names :
        resolve_failures[n] >= 1 =>
            /\ task_pc[n] \notin { "sleep", "connect", "gather", "wait" }
            /\ resolve_failures[n] = 1

C20_ShutdownTearsEverythingDown ==
    run_state = "exited" =>
        \A n \in Names :
            subprocess_of[n] # "running" /\ channel_of[n] \notin { "open", "dropped" }

\* ------------------------------------------------------------ C21 - C30

\* C21: from the step that requests the shutdown on, no target's attempt
\* counter or delay changes, no task starts a connection attempt or a
\* backoff sleep, no channel is opened and no subprocess spawned; and when
\* the bridge exits every task has ended, the ones that were sleeping or
\* reading included.
C21_NoRetryAfterShutdown ==
    [][ run_state' \in { "shutdown", "exited" } =>
          \A n \in Names :
              /\ attempt_of'[n] = attempt_of[n]
              /\ backoff_of'[n] = backoff_of[n]
              /\ (task_pc'[n] # task_pc[n] => task_pc'[n] = "done")
              /\ (channel_of'[n] = "open" => channel_of[n] = "open")
              /\ (subprocess_of'[n] = "running" => subprocess_of[n] = "running")
              /\ (run_state' = "exited" => task_pc'[n] \in { "none", "done" }) ]_vars

\* C21 witness: the bridge has exited after a shutdown that found one task
\* in its backoff sleep after one failure and the other Active; the first
\* still has one failure counted, the second none.
C21_Witness ==
    \E n \in Names : \E m \in Names \ { n } :
        /\ run_state = "exited"
        /\ task_pc[n] = "done" /\ attempt_of[n] = 1 /\ channel_of[n] = "none"
        /\ task_pc[m] = "done" /\ attempt_of[m] = 0 /\ channel_of[m] = "closed"
        /\ subprocess_of[m] \in { "exited", "killed" }

\* C22 (as claimed): over the calls of load_config on one MCPPipe the file
\* is read at most once and every call returns what the first one returned.
C22_LoadedOnce ==
    /\ reads <= 1
    /\ \A i \in 1..Len(returned) : returned[i] = returned[1]

\* C23: a call of load_config that finds no memo and a file that is missing
\* or does not parse stores and returns the empty snapshot (it returns, it
\* does not raise), and when the call is run's, run ends with its own "no
\* enabled servers" error.
C23_LoadFailureGivesEmptySnapshot ==
    [][ Len(returned') > Len(returned) /\ config = PyNone
          /\ source.file \in { "missing", "unparsable" } =>
            /\ config' = EmptySnapshot
            /\ returned'[Len(returned')] = EmptySnapshot
            /\ (multi_result' # multi_result =>
                  multi_result' = "RuntimeError: no enabled mcpServers") ]_vars

\* C23 witness: run was the first caller, the file did not parse, and run
\* ended with the "no enabled servers" error.
C23_Witness ==
    /\ source.file = "unparsable"
    /\ reads = 1
    /\ returned = << EmptySnapshot >>
    /\ multi_result = "RuntimeError: no enabled mcpServers"

\* The entry the last call of build_server_command matched, if it matched one.
Matched == resolved.target \in DOMAIN servers_of(config)
MatchedEntry == servers_of(config)[resolved.target]
ProxyTypes == { "sse", "http", "streamablehttp" }

\* C24: build_server_command on a target whose entry has the disabled flag
\* set fails with the disabled error and gives no argv, whatever the entry's
\* kind fields, command, url and headers are.
C24_DisabledAlwaysFails ==
    (Matched /\ MatchedEntry.disabled) =>
        /\ resolved.result.error = "disabled"
        /\ resolved.result.argv = << >>

\* C24 witness: a disabled http entry with a url and headers was resolved.
C24_Witness ==
    /\ Matched
    /\ MatchedEntry.disabled
    /\ MatchedEntry.type = "http"
    /\ MatchedEntry.url # ""
    /\ MatchedEntry.headers # << >>
    /\ resolved.result.error = "disabled"

\* C25: for an enabled matched entry, a stdio entry without a command and a
\* proxied entry without a url fail with the missing-field error, and no
\* argv is returned.
C25_MissingFieldFails ==
    (Matched /\ ~MatchedEntry.disabled) =>
        /\ (typ_of(MatchedEntry) = "stdio" /\ MatchedEntry.command = "" =>
              /\ resolved.result.error = "missing command"
              /\ resolved.result.argv = << >>)
        /\ (typ_of(MatchedEntry) \in ProxyTypes /\ MatchedEntry.url = "" =>
              /\ resolved.result.error = "missing url"
              /\ resolved.result.argv = << >>)

\* C25 witness: an enabled entry of kind stdio (by default: no kind field)
\* that has a url but no command was resolved.
C25_Witness ==
    /\ Matched
    /\ ~MatchedEntry.disabled
    /\ MatchedEntry.type = "" /\ MatchedEntry.transportType = ""
    /\ MatchedEntry.command = "" /\ MatchedEntry.url # ""
    /\ resolved.result.error = "missing command"
    /\ resolved.result.argv = << >>

\* C26: for an enabled proxied entry with a url the argv starts with the
\* proxy invocation; for sse it has no streaming flag, for http and
\* streamablehttp the streaming flag follows the invocation; then come three
\* arguments per header, in the order of the entry, and the url is last.
C26_ProxyArgvShape ==
    (Matched /\ ~MatchedEntry.disabled /\ typ_of(MatchedEntry) \in ProxyTypes
       /\ MatchedEntry.url # "") =>
        LET argv == resolved.result.argv
            flagged == typ_of(MatchedEntry) # "sse"
            base == IF flagged THEN 5 ELSE 3
            headers == MatchedEntry.headers
        IN  /\ resolved.result.error = ""
            /\ Len(argv) = base + 3 * Len(headers) + 1
            /\ SubSeq(argv, 1, 3) = << "python", "-m", "mcp_proxy" >>
            /\ (flagged => SubSeq(argv, 4, 5) = << "--transport", "streamablehttp" >>)
            /\ (~flagged => \A i \in 1..Len(argv) :
                                argv[i] \notin { "--transport", "streamablehttp" })
            /\ \A k \in 1..Len(headers) :
                   /\ argv[base + 3 * k - 2] = "-H"
                   /\ argv[base + 3 * k - 1] = headers[k].key
            /\ argv[Len(argv)] = MatchedEntry.url

\* C26 witness: an sse entry (written "SSE") with a numeric header before a
\* text header was resolved to the proxy invocation, the two headers with
\* the number as text, and the url.
C26_Witness ==
    /\ Matched
    /\ MatchedEntry.type = "SSE"
    /\ resolved.result.argv =
         << "python", "-m", "mcp_proxy", "-H", "N", "7", "-H", "A", "x", "http://u" >>

\* C27: a target that is a key of the table is resolved from its entry,
\* also when a file of that name exists; any other target gives the
\* interpreter with the target as the script when the file exists, and the
\* not-found error when it does not.
C27_LookupOrder ==
    resolved.target # "" =>
        IF Matched
          THEN /\ resolved.result.flag
               /\ resolved.result.argv # << "python", resolved.target >>
               /\ resolved.result.error # "not a configured server nor an existing script"
          ELSE IF resolved.target \in files
                 THEN /\ resolved.result.error = ""
                      /\ resolved.result.argv = << "python", resolved.target >>
                 ELSE /\ resolved.result.error = "not a configured server nor an existing script"
                      /\ resolved.result.argv = << >>

\* C27 witness: "srv" is a key of the table and a file on disk, and was
\* resolved to the command of its entry.
C27_Witness ==
    /\ resolved.target = "srv"
    /\ Matched
    /\ "srv" \in files
    /\ resolved.result.argv = << "cmd", "--x" >>

\* The holder's session is active and not timed out, as seen at `now`.
Unexpired ==
    /\ active_user.id # None
    /\ now - active_user.start_time <
         (IF active_user.is_vip THEN VIP_SESSION_TIMEOUT_SECONDS
                                ELSE SESSION_TIMEOUT_SECONDS)

C29_VipTakesControl ==
    call.op = "vip" =>
        /\ active_user.id = call.user_id
        /\ active_user.is_vip

\* C30: release_control(user_id) returns True and clears the active user
\* when user_id is the active user's id; otherwise it returns False and
\* leaves the active user and the waiting list as they are.
C30_ReleaseOnlyByHolder ==
    [][ (requests' # requests /\ call'.op = "exit_control") =>
            IF call'.user_id = active_user.id
              THEN /\ ret' = "True"
                   /\ active_user' = [ id |-> None, username |-> None,
                                       start_time |-> 0, is_vip |-> FALSE ]
              ELSE /\ ret' = "False"
                   /\ active_user' = active_user
                   /\ waiting_users' = waiting_users ]_vars

\* C30 witness: a user who is not the holder asked to release while someone
\* was waiting, got 403, and the holder and the waiting list are still there.
C30_Witness ==
    /\ call.op = "exit_control"
    /\ call.user_id = "u2"
    /\ ret = "False"
    /\ response = "403"
    /\ active_user.id = "u1"
    /\ waiting_users # << >>

\* ------------------------------------------------------------ C31 - C39

\* C31 (as claimed): the stop of a timed move comes when that move's own
\* duration has elapsed, and it zeroes only the velocity its own move set:
\* never the velocity of a different command issued later.
C31_TimedMoveStopsOnlyItself ==
    [][ \A c \in 1..MaxCommands :
            (timers[c].pc = "stop" /\ timers'[c].pc = "done") =>
                /\ clock >= timers[c].end_time
                /\ (set_by.id = c \/ current_action = ZeroVelocity) ]_vars

\* C39 (as claimed): when the control loop zeroes the velocity fields, more
\* than command_timeout_s has elapsed since last_command_time.
C39_ZeroedOnlyWhenTimedOut ==
    [][ (loop_pc = "zero" /\ loop_pc' # "zero") =>
            clock - last_command_time > command_timeout_s ]_vars

\* C38 (as claimed): a call of is_active_user returns, leaving the lock
\* free, and returns True exactly when user_id is the active user's id and
\* the session has not timed out.
C38_IsActiveUserReturns ==
    [][ (requests' # requests /\ call'.op = "is_active_user") =>
            /\ lock' = "free"
            /\ ret' = IF call'.user_id = active_user.id /\ Unexpired
                        THEN "True" ELSE "False" ]_vars

\* C32 (as claimed): once a session's failure has reached the reconnect
\* loop, which then sleeps, no pump of the failed attempt takes a step: none
\* reads, sends or ends.
C32_RemainingPumpsCancelled ==
    [][ (pc = "sleep" /\ pc' = "sleep") =>
            UNCHANGED << inPump, outPump, errPump, nread, sent >> ]_vars

\* C33: at the end of the subprocess's output the outbound pump ends
\* without an error; and an Active session whose subprocess has ended, whose
\* channel stays open and whose inbound pump gets no message, stays Active,
\* with the same subprocess record and no new attempt.
C33_ProcessExitAloneKeepsActive ==
    [][ /\ (outPump = "read" /\ nread = Len(produced) /\ pumps_of' = pumps_of
              /\ outPump' # outPump) => outPump' = "returned"
        /\ (/\ pc = "gather" /\ process[cur] # "running"
            /\ websocket[cur] = "open" /\ websocket'[cur] = "open"
            /\ inPump = "recv" /\ received' = received) =>
              /\ pc' = "gather"
              /\ cur' = cur
              /\ process' = process
              /\ reconnect_attempt' = reconnect_attempt
              /\ attempts' = attempts ]_vars

\* C33 witness: the subprocess of an Active session exited, the outbound and
\* the stderr pump ended cleanly, the channel is open and the inbound pump
\* waits.
C33_Witness ==
    /\ pc = "gather"
    /\ process[cur] = "exited"
    /\ outPump = "returned"
    /\ errPump = "returned"
    /\ inPump = "recv"
    /\ websocket[cur] = "open"

\* C34: an attempt becomes Active in the step that opens its channel and
\* spawns its subprocess; a failed resolution or spawn leaves the channel
\* open and no subprocess; and every entry into the backoff sleep counts one
\* failure, doubles the delay up to the cap, and finds every channel closed
\* and no subprocess running, whichever step failed.
C34_AnyStepFailureGoesToBackoff ==
    [][ /\ (pc' = "gather" /\ pc # "gather") =>
              /\ pc = "connect"
              /\ cur' = cur + 1
              /\ websocket[cur'] = "none" /\ websocket'[cur'] = "open"
              /\ process[cur'] = "none" /\ process'[cur'] = "running"
        /\ (pc' = "aexit" /\ pc = "connect") =>
              /\ exc' \in { "ResolveError", "SpawnError" }
              /\ websocket'[cur'] = "open"
              /\ process'[cur'] = "none"
        /\ (pc' = "sleep" /\ pc # "sleep") =>
              /\ reconnect_attempt' = reconnect_attempt + 1
              /\ backoff' = Min(backoff * 2, MAX_BACKOFF)
              /\ \A s \in Sessions :
                     websocket'[s] # "open" /\ process'[s] # "running" ]_vars

\* C34 witness: the first attempt opened its channel and then failed to
\* resolve or to spawn; the session sleeps with that channel closed, no
\* subprocess, and one failure counted.
C34_Witness ==
    /\ pc = "sleep"
    /\ cur = 1
    /\ websocket[1] = "closed"
    /\ process[1] = "none"
    /\ reconnect_attempt = 1

\* C35: when the inbound pump has stopped the subprocess's stdin is closed,
\* and from then on nothing is written to it.
C35_InboundStopClosesStdin ==
    [][ /\ (inPump' \in PumpExceptions => stdinClosed')
        /\ (inPump \in PumpExceptions /\ pumps_of' = pumps_of) =>
              /\ stdin' = stdin
              /\ stdinClosed'
              /\ inPump' = inPump ]_vars

\* C35 witness: the second message's write failed because the subprocess
\* had exited; the pump stopped and stdin is closed.
C35_Witness ==
    /\ inPump = "BrokenPipeError"
    /\ stdinClosed
    /\ Len(received) = 2
    /\ Len(stdin) = 1

\* C36: within an attempt a write to stdin happens only in the step that
\* receives a message, and writes that message once; a send carries the
\* line just read, once, from this attempt's subprocess on this attempt's
\* channel; and a new attempt starts with nothing written and nothing sent.
C36_AtMostOnceNoReplay ==
    [][ /\ (received' # received /\ pumps_of' = pumps_of) =>
              \E m \in Messages :
                  /\ received' = Append(received, m)
                  /\ stdin' \in { stdin, Append(stdin, m \o << NL >>) }
        /\ (stdin' # stdin /\ pumps_of' = pumps_of) => received' # received
        /\ (sent' # sent /\ pumps_of' = pumps_of) =>
              /\ sent' = Append(sent, [ from |-> pumps_of, on |-> pumps_of,
                                        data |-> produced[nread] ])
              /\ Len(sent') = nread
        /\ (pumps_of' # pumps_of /\ pumps_of' # 0) =>
              /\ stdin' = << >>
              /\ sent' = << >>
              /\ received' = << >>
              /\ nread' = 0 ]_vars

\* C36 witness: the second attempt, after a first one that ran a
\* subprocess, has received one message and written it once, and has sent
\* one line.
C36_Witness ==
    /\ cur = 2
    /\ pumps_of = 2
    /\ process[1] \in { "exited", "killed" }
    /\ Len(received) = 1
    /\ stdin = << received[1] \o << NL >> >>
    /\ Len(sent) = 1
    /\ sent[1].from = 2

====
